---- MODULE Spec2Model ----
(***************************************************************************)
(* bronco-browser: the command bridge between the MCP server (issuer) and  *)
(* the browser extension (executor).                                       *)
(*                                                                         *)
(*   SpecBridge    - server side: extensionSocket, pendingRequests,        *)
(*                   requestId, the 30 s timers and the socket handlers.   *)
(*   SpecReconnect - extension side: connect(), ws.onopen, ws.onclose and  *)
(*                   the 3 s reconnect timer.                              *)
(*   SpecControl   - extension side: sessionEnabled, connectedTabId and    *)
(*                   the async operations that read and write them.        *)
(*   SpecReplay    - server side: replayRecordingFromDisk driving the      *)
(*                   bridge, one sendToExtension call per action.          *)
(*   SpecCapture   - extension side: the recorder content script and the  *)
(*                   recording state of the background.                    *)
(*   SpecSave      - extension side: saveRecording and the store of saved  *)
(*                   recordings; server side: browser_get_recording.       *)
(*   SpecStore     - server side: toFilename and the files of the          *)
(*                   recordings directory.                                 *)
(*   SpecSelector  - recorder: generateSelector over small documents.      *)
(*                                                                         *)
(* Each specification moves its own variables and leaves the others of the *)
(* module unchanged.  null is modelled as 0 (socket ids, request ids and   *)
(* tab ids start at 1).                                                    *)
(***************************************************************************)
EXTENDS Naturals, FiniteSets, Sequences, Bags, TLC

(* ---- bounds ---- *)
MaxReq == 1        \* request ids issued by sendToExtension
MaxSock == 2       \* sessions accepted by the WebSocket server
MaxNC == 1         \* sendToExtension calls counted while disconnected
MaxStartups == 2   \* chrome.runtime.onStartup events delivered
MaxTab == 2        \* tab ids the browser hands out
MaxTask == 2       \* async operations of the extension in flight at once
MaxAct == 2        \* actions of the recording that is replayed
MaxSent == 2       \* requests sent over the sessions of one issuer

\* Request ids: enough for the calls of the tool handlers (MaxReq) and for
\* one call per action of a replay (MaxAct).
Ids == 1..(IF MaxAct > MaxReq THEN MaxAct ELSE MaxReq)
Socks == 1..MaxSock
\* connect() runs once at load and at most once per onStartup event, and every
\* later call replaces a socket that has closed.
CliSocks == 1..(MaxStartups + 1)
TabIds == 1..MaxTab

VARIABLES
  \* server (src/install.sh, server/index.js part)
  extensionSocket,   \* 0 = null, else the socket of the last 'connection'
  pendingRequests,   \* keys of the Map id -> {resolve, reject}
  requestId,         \* let requestId = 0
  timers,            \* ids whose setTimeout(..., 30000) has not fired yet
  srvSock,           \* per socket: "none", "open", "errored", "closed"
  outcome,           \* per id: the state of the caller's promise
  settles,           \* per id: number of resolve/reject calls made
  removes,           \* per id: number of times the entry left the Map
  sentOn,            \* per id: socket the Request was written to (0 = never)
  matched,           \* per id: message.error of the Response that matched it
  preResp,           \* per id: a Response arrived while the timer was armed
  lateResp,          \* per id: a Response arrived after the timer had fired
  ncCalls,           \* calls rejected as not connected
  \* extension, connection (background.js part of generate-icons.js)
  ws,                \* 0 = null, else the WebSocket held by `ws`
  cliSock,           \* per WebSocket: "none", "CONNECTING", "OPEN"
  reconnectTimers,   \* setTimeout(connect, 3000) calls not fired yet
  keepAliveInterval, \* TRUE while the 20 s interval is set
  startups,          \* chrome.runtime.onStartup events handled
  serverUp,          \* the endpoint ws://localhost:9876 accepts connections
  everLost,          \* some ws.onclose has run
  icon,              \* colour last passed to chrome.action.setIcon
  \* extension, control state
  sessionEnabled,    \* controlEnabled
  connectedTabId,    \* targetSurfaceId, 0 = null
  storedSession,     \* chrome.storage.local 'sessionEnabled'
  tabs,              \* ids of the tabs that exist
  nextTabId,         \* last tab id handed out
  removedQ,          \* removed tabs whose onRemoved listener has not run
  task,              \* bag of the async operations suspended at an await
  offDone,           \* a toggle that disabled control while a tab was
                     \* targeted has completed and no toggle began since
  lastResult,        \* outcome of the operation that finished in the last
                     \* step, NoResult when none did; for a command, off =
                     \* the value of offDone when it ran; dis = the
                     \* operation was called while sessionEnabled was false
  \* server, replayRecordingFromDisk
  recording,         \* recording.actions of the file that was read
  replay,            \* pc: position in replayRecordingFromDisk, i: index of
                     \* the action of the current iteration, id: request
                     \* awaited, executed: actionsExecuted that was returned
  results,           \* const results = []
  \* extension, recording state of the background
  isRecording,       \* let isRecording = false
  currentRecording,  \* let currentRecording = []
  lastSaved,         \* let lastSaved = true
  recordingTabId,    \* 0 = null, else the tab being recorded
  recTask,           \* startRecording / stopRecording / saveRecording /
                     \* deleteRecording calls
                     \* suspended at an await
  storage,           \* chrome.storage.local 'recordings': name -> actions
  lastRec,           \* outcome of the recording operation that finished in
                     \* the last step, NoRec when none did
  \* recorder content script (recorder.js part of generate-icons.js)
  injected,          \* window.__mcpRecorderInjected of the page of the tab
  recorderIsRecording, \* isRecording of the content script
  inputTimeout,      \* per field: armed timers of el.__mcpInputTimeout
  fieldValue,        \* per field: el.value, the number of the edit that set
                     \* it (0 = never edited)
  msgQ,              \* messages from the content script to the background
                     \* that have not been delivered yet
  opCount,           \* operations the user has performed on the page
  superseded,        \* edits followed by another edit of the same field
                     \* while its timer was armed
  starts,            \* calls of startRecording made
  cleanStart,        \* the last startRecording cleared the buffer while
                     \* the background and the content script were idle
  \* server, recordings directory
  disk,              \* file name -> the record that was written to it
  lastStore,         \* outcome of the last recording tool call
  \* recorder, generateSelector
  doc,               \* the document: its elements
  target,            \* the element passed to generateSelector
  selector,          \* what generateSelector returned last
  \* server, socket.on('message')
  received           \* type and id of the message that was handled last

bridgeVars == <<extensionSocket, pendingRequests, requestId, timers, srvSock,
                outcome, settles, removes, sentOn, matched, preResp, lateResp,
                ncCalls>>

reconnectVars == <<ws, cliSock, reconnectTimers, keepAliveInterval, startups,
                   serverUp, everLost>>

controlVars == <<sessionEnabled, connectedTabId, storedSession, tabs, nextTabId,
                 removedQ, task, offDone, lastResult>>

replayVars == <<recording, replay, results>>

recorderVars == <<isRecording, currentRecording, lastSaved, recordingTabId,
                  recTask, storage, lastRec, injected, recorderIsRecording,
                  inputTimeout, fieldValue, msgQ, opCount, superseded, cleanStart,
                  starts>>

storeVars == <<disk, lastStore>>

selectorVars == <<doc, target, selector>>

inboundVars == <<received>>

captureVars == <<recorderVars, storeVars, selectorVars, inboundVars>>

vars == <<bridgeVars, reconnectVars, icon, controlVars, replayVars, captureVars>>

(* ---- messages ---- *)
\* What the extension hands to send(data): a Response, a keepalive or the
\* extension_ready notice.  id = 0 stands for "no id member".  Values of the
\* `error` member: "<absent>" = no such member ({id, result}), "<undefined>" =
\* member present with value undefined (error.message of a thrown
\* non-Error).  Values of the `result` member: what a command returned;
\* click, type, selectOption and pressKey return {success: false, error:
\* 'Element not found: ...'} when the selector matches no element.
ExtData ==
  [type : {"response"}, id : Ids, error : {"<absent>"}, result : {"done", "Element not found"}]
    \cup [type : {"response"}, id : Ids, error : {"<undefined>", "", "boom"},
          result : {""}]
    \cup [type : {"keepalive", "extension_ready"}, id : {0}, error : {"<absent>"},
          result : {""}]

\* JSON.stringify on the extension, JSON.parse on the server: a member whose
\* value is undefined is not serialised.
JSONWire(data) ==
  [data EXCEPT !.error = IF data.error = "<undefined>" THEN "<absent>" ELSE data.error]

\* JavaScript truthiness of message.error.
Truthy(e) == e \notin {"<absent>", "<undefined>", ""}

NoOutcome == [kind |-> "unsent", msg |-> ""]
Pending == [kind |-> "pending", msg |-> ""]

InitBridge ==
  /\ extensionSocket = 0
  /\ pendingRequests = {}
  /\ requestId = 0
  /\ timers = {}
  /\ srvSock = [s \in Socks |-> "none"]
  /\ outcome = [i \in Ids |-> NoOutcome]
  /\ settles = [i \in Ids |-> 0]
  /\ removes = [i \in Ids |-> 0]
  /\ sentOn = [i \in Ids |-> 0]
  /\ matched = [i \in Ids |-> "<none>"]
  /\ preResp = [i \in Ids |-> FALSE]
  /\ lateResp = [i \in Ids |-> FALSE]
  /\ ncCalls = 0

\* A server that numbers the requests of every session from 1.
wssOnConnection_RestartsIds(s) ==
  /\ srvSock[s] = "none"
  /\ \A t \in Socks : t < s => srvSock[t] # "none"
  /\ srvSock' = [srvSock EXCEPT ![s] = "open"]
  /\ extensionSocket' = s
  /\ requestId' = 0
  /\ UNCHANGED <<pendingRequests, timers, outcome, settles, removes,
                 sentOn, matched, preResp, lateResp, ncCalls>>

\* wss.on('connection', socket => { extensionSocket = socket; ... })
\* Sessions are numbered in the order in which they are accepted.
wssOnConnection(s) ==
  /\ srvSock[s] = "none"
  /\ \A t \in Socks : t < s => srvSock[t] # "none"
  /\ srvSock' = [srvSock EXCEPT ![s] = "open"]
  /\ extensionSocket' = s
  /\ UNCHANGED <<pendingRequests, requestId, timers, outcome, settles, removes,
                 sentOn, matched, preResp, lateResp, ncCalls>>

\* A handler that looks the id up before it looks at the type.
socketOnMessage_IdFirst(s, data) ==
  /\ srvSock[s] = "open"
  /\ LET message == JSONWire(data)
         id == message.id
         hit == id \in pendingRequests
     IN  /\ pendingRequests' = IF hit THEN pendingRequests \ {id} ELSE pendingRequests
         /\ removes' = IF hit THEN [removes EXCEPT ![id] = @ + 1] ELSE removes
         /\ settles' = IF hit THEN [settles EXCEPT ![id] = @ + 1] ELSE settles
         /\ outcome' =
              IF ~hit THEN outcome
              ELSE IF Truthy(message.error)
                   THEN [outcome EXCEPT ![id] = [kind |-> "RemoteError", msg |-> message.error]]
                   ELSE [outcome EXCEPT ![id] = [kind |-> "result", msg |-> message.result]]
         /\ matched' = IF hit THEN [matched EXCEPT ![id] = message.error] ELSE matched
         /\ UNCHANGED <<preResp, lateResp>>
  /\ UNCHANGED <<extensionSocket, requestId, timers, srvSock, sentOn, ncCalls>>

\* socket.on('message'): keepalive and extension_ready return at once; a
\* message whose id is in the Map removes the entry and settles the promise.
socketOnMessage(s, data) ==
  /\ srvSock[s] = "open"
  /\ LET message == JSONWire(data)
         id == message.id
         isResp == message.type = "response"
         hit == isResp /\ id \in pendingRequests
     IN  /\ pendingRequests' = IF hit THEN pendingRequests \ {id} ELSE pendingRequests
         /\ removes' = IF hit THEN [removes EXCEPT ![id] = @ + 1] ELSE removes
         /\ settles' = IF hit THEN [settles EXCEPT ![id] = @ + 1] ELSE settles
         /\ outcome' =
              IF ~hit THEN outcome
              ELSE IF Truthy(message.error)
                   THEN [outcome EXCEPT ![id] = [kind |-> "RemoteError", msg |-> message.error]]
                   ELSE [outcome EXCEPT ![id] = [kind |-> "result", msg |-> message.result]]
         /\ matched' = IF hit THEN [matched EXCEPT ![id] = message.error] ELSE matched
         /\ preResp' = IF isResp /\ id \in timers
                       THEN [preResp EXCEPT ![id] = TRUE] ELSE preResp
         /\ lateResp' = IF isResp /\ id <= requestId /\ id \notin timers
                        THEN [lateResp EXCEPT ![id] = TRUE] ELSE lateResp
  /\ UNCHANGED <<extensionSocket, requestId, timers, srvSock, sentOn, ncCalls>>

\* socket.on('close') that only forgets the socket.
socketOnClose_NoReject(s) ==
  /\ srvSock[s] \in {"open", "errored"}
  /\ srvSock' = [srvSock EXCEPT ![s] = "closed"]
  /\ extensionSocket' = 0
  /\ UNCHANGED <<pendingRequests, requestId, timers, outcome, settles, removes,
                 sentOn, matched, preResp, lateResp, ncCalls>>

\* socket.on('close'): extensionSocket = null, every pending request is
\* rejected with 'Extension disconnected', the Map is cleared.
socketOnClose(s) ==
  /\ srvSock[s] \in {"open", "errored"}
  /\ srvSock' = [srvSock EXCEPT ![s] = "closed"]
  /\ extensionSocket' = 0
  /\ outcome' = [i \in Ids |->
                   IF i \in pendingRequests
                   THEN [kind |-> "TransportLost", msg |-> "Extension disconnected"]
                   ELSE outcome[i]]
  /\ settles' = [i \in Ids |-> IF i \in pendingRequests THEN settles[i] + 1 ELSE settles[i]]
  /\ removes' = [i \in Ids |-> IF i \in pendingRequests THEN removes[i] + 1 ELSE removes[i]]
  /\ pendingRequests' = {}
  /\ UNCHANGED <<requestId, timers, sentOn, matched, preResp, lateResp, ncCalls>>

\* socket.on('error'): logs only.  The ws socket delivers no further message
\* after an error and emits 'close' next.
socketOnError(s) ==
  /\ srvSock[s] = "open"
  /\ srvSock' = [srvSock EXCEPT ![s] = "errored"]
  /\ UNCHANGED <<extensionSocket, pendingRequests, requestId, timers, outcome,
                 settles, removes, sentOn, matched, preResp, lateResp,
                 ncCalls>>

\* sendToExtension without the `if (!extensionSocket)` early return.
sendToExtension_NoCheck ==
  /\ requestId < MaxReq
  /\ LET id == requestId + 1
     IN  /\ requestId' = id
         /\ pendingRequests' = pendingRequests \cup {id}
         /\ timers' = timers \cup {id}
         /\ outcome' = [outcome EXCEPT ![id] = Pending]
         /\ sentOn' = [sentOn EXCEPT ![id] = extensionSocket]
  /\ UNCHANGED <<extensionSocket, srvSock, settles, removes, matched, preResp,
                 lateResp, ncCalls>>

\* sendToExtension that arms no timeout.
sendToExtension_NoTimer ==
  IF extensionSocket = 0
  THEN /\ ncCalls < MaxNC
       /\ ncCalls' = ncCalls + 1
       /\ UNCHANGED <<extensionSocket, pendingRequests, requestId, timers, srvSock,
                      outcome, settles, removes, sentOn, matched, preResp,
                      lateResp>>
  ELSE /\ requestId < MaxReq
       /\ LET id == requestId + 1
          IN  /\ requestId' = id
              /\ pendingRequests' = pendingRequests \cup {id}
              /\ outcome' = [outcome EXCEPT ![id] = Pending]
              /\ sentOn' = [sentOn EXCEPT ![id] = extensionSocket]
       /\ UNCHANGED <<extensionSocket, timers, srvSock, settles, removes, matched,
                      preResp, lateResp, ncCalls>>

\* Calls the model lets sendToExtension make: MaxReq sent and MaxNC rejected
\* calls by the tool handlers, one call per action during a replay.
\* sendToExtension(method, params): the executor of the returned promise,
\* for at most reqs calls that send a request and ncs calls that are rejected
\* because no extension is connected.
sendToExtensionWithin(reqs, ncs) ==
  IF extensionSocket = 0
  THEN /\ ncCalls < ncs
       /\ ncCalls' = ncCalls + 1
       /\ UNCHANGED <<extensionSocket, pendingRequests, requestId, timers, srvSock,
                      outcome, settles, removes, sentOn, matched, preResp,
                      lateResp>>
  ELSE /\ requestId < reqs
       /\ LET id == requestId + 1
          IN  /\ requestId' = id
              /\ pendingRequests' = pendingRequests \cup {id}
              /\ timers' = timers \cup {id}
              /\ outcome' = [outcome EXCEPT ![id] = Pending]
              /\ sentOn' = [sentOn EXCEPT ![id] = extensionSocket]
       /\ UNCHANGED <<extensionSocket, srvSock, settles, removes, matched,
                      preResp, lateResp, ncCalls>>

sendToExtension ==
  sendToExtensionWithin(IF replay.pc = "idle" THEN MaxReq ELSE MaxAct,
                        IF replay.pc = "idle" THEN MaxNC ELSE MaxAct)

\* A timeout callback without the `pendingRequests.has(id)` test.
timeoutCallback_NoGuard(id) ==
  /\ id \in timers
  /\ timers' = timers \ {id}
  /\ pendingRequests' = pendingRequests \ {id}
  /\ removes' = IF id \in pendingRequests THEN [removes EXCEPT ![id] = @ + 1] ELSE removes
  /\ settles' = [settles EXCEPT ![id] = @ + 1]
  /\ outcome' = [outcome EXCEPT ![id] = [kind |-> "Timeout", msg |-> "Request timeout"]]
  /\ UNCHANGED <<extensionSocket, requestId, srvSock, sentOn, matched, preResp,
                 lateResp, ncCalls>>

\* A timeout that rejects and leaves the entry in the Map.
timeoutCallback_NoDelete(id) ==
  /\ id \in timers
  /\ timers' = timers \ {id}
  /\ IF id \in pendingRequests
     THEN /\ settles' = [settles EXCEPT ![id] = @ + 1]
          /\ outcome' = [outcome EXCEPT ![id] = [kind |-> "Timeout", msg |-> "Request timeout"]]
     ELSE UNCHANGED <<settles, outcome>>
  /\ UNCHANGED <<pendingRequests, removes, extensionSocket, requestId, srvSock, sentOn,
                 matched, preResp, lateResp, ncCalls>>

timeoutCallback(id) ==
  /\ id \in timers
  /\ timers' = timers \ {id}
  /\ IF id \in pendingRequests
     THEN /\ pendingRequests' = pendingRequests \ {id}
          /\ removes' = [removes EXCEPT ![id] = @ + 1]
          /\ settles' = [settles EXCEPT ![id] = @ + 1]
          /\ outcome' = [outcome EXCEPT ![id] = [kind |-> "Timeout", msg |-> "Request timeout"]]
     ELSE UNCHANGED <<pendingRequests, removes, settles, outcome>>
  /\ UNCHANGED <<extensionSocket, requestId, srvSock, sentOn, matched, preResp,
                 lateResp, ncCalls>>

NextBridge ==
  \/ (\E s \in Socks : wssOnConnection(s))
       /\ UNCHANGED <<reconnectVars, icon, controlVars, replayVars, captureVars>>
  \/ (\E s \in Socks, data \in ExtData : socketOnMessage(s, data))
       /\ UNCHANGED <<reconnectVars, icon, controlVars, replayVars, captureVars>>
  \/ (\E s \in Socks : socketOnClose(s))
       /\ UNCHANGED <<reconnectVars, icon, controlVars, replayVars, captureVars>>
  \/ (\E s \in Socks : socketOnError(s))
       /\ UNCHANGED <<reconnectVars, icon, controlVars, replayVars, captureVars>>
  \/ sendToExtension /\ UNCHANGED <<reconnectVars, icon, controlVars, replayVars, captureVars>>
  \/ (\E id \in Ids : timeoutCallback(id))
       /\ UNCHANGED <<reconnectVars, icon, controlVars, replayVars, captureVars>>

\* What arrives on the socket here: a Response, a keepalive or an
\* extension_ready notice with or without an id member (the extension sends
\* them without), and text that JSON.parse rejects.
InboundData ==
  [type : {"response"}, id : Ids, error : {"<absent>"}, result : {"done"}]
    \cup [type : {"keepalive", "extension_ready"}, id : {0} \cup Ids,
          error : {"<absent>"}, result : {""}]
    \cup [type : {"unparseable"}, id : {0}, error : {"<absent>"}, result : {""}]

NoMessage == [type |-> "none", id |-> 0]

InitInbound == received = NoMessage

\* socket.on('message') for any data; `received` keeps what was handled.
socketReceives(s, data) ==
  /\ socketOnMessage(s, data)
  /\ received' = [type |-> data.type, id |-> data.id]

\* A step of the server other than the handling of a message.
InboundStep ==
  /\ received' = NoMessage
  /\ UNCHANGED <<reconnectVars, icon, controlVars, replayVars, recorderVars,
                 storeVars, selectorVars>>

NextInbound ==
  \/ (\E s \in Socks : wssOnConnection(s)) /\ InboundStep
  \/ (\E s \in Socks, data \in InboundData : socketReceives(s, data))
       /\ UNCHANGED <<reconnectVars, icon, controlVars, replayVars, recorderVars,
                      storeVars, selectorVars>>
  \/ (\E s \in Socks : socketOnClose(s)) /\ InboundStep
  \/ sendToExtension /\ InboundStep
  \/ (\E id \in Ids : timeoutCallback(id)) /\ InboundStep

\* Requests sent over the sessions of one issuer: sessions follow one
\* another, requests are sent and Responses arrive on any open socket.
NextSessions ==
  \/ (\E s \in Socks : wssOnConnection(s)) /\ InboundStep
  \/ (\E s \in Socks, data \in InboundData :
         data.type = "response" /\ socketReceives(s, data))
       /\ UNCHANGED <<reconnectVars, icon, controlVars, replayVars, recorderVars,
                      storeVars, selectorVars>>
  \/ (\E s \in Socks : socketOnClose(s)) /\ InboundStep
  \/ sendToExtensionWithin(MaxSent, MaxNC) /\ InboundStep

(***************************************************************************)
(* Extension: the connection to the server                                 *)
(***************************************************************************)
\* updateIcon(): gray when `ws` is not an open socket, else green when the
\* session is enabled, else yellow.
IconColor(w, socks, enabled) ==
  IF ~(w # 0 /\ socks[w] = "OPEN") THEN "gray"
  ELSE IF enabled THEN "green" ELSE "yellow"

\* The state after the service worker script has run: loadSessionState() and
\* connect() have been called once.
InitReconnect ==
  /\ ws = 1
  /\ cliSock = [s \in CliSocks |-> IF s = 1 THEN "CONNECTING" ELSE "none"]
  /\ reconnectTimers = 0
  /\ keepAliveInterval = FALSE
  /\ startups = 0
  /\ serverUp = FALSE
  /\ everLost = FALSE
  /\ icon = "gray"

\* connect(): ws = new WebSocket(WS_URL).  The new object takes the first
\* free slot.
connect ==
  \E s \in CliSocks :
    /\ cliSock[s] = "none"
    /\ \A t \in CliSocks : t < s => cliSock[t] # "none"
    /\ cliSock' = [cliSock EXCEPT ![s] = "CONNECTING"]
    /\ ws' = s

\* ws.onopen: startKeepAlive(), send extension_ready, updateIcon().
wsOnOpen(s) ==
  /\ cliSock[s] = "CONNECTING"
  /\ serverUp
  /\ cliSock' = [cliSock EXCEPT ![s] = "OPEN"]
  /\ keepAliveInterval' = TRUE
  /\ icon' = IconColor(ws, cliSock', sessionEnabled)
  /\ UNCHANGED <<ws, reconnectTimers, startups, serverUp, everLost>>

\* ws.onclose that schedules no new attempt.
wsOnClose_NoRetry(s) ==
  /\ cliSock[s] \in {"CONNECTING", "OPEN"}
  /\ ~serverUp
  /\ cliSock' = [cliSock EXCEPT ![s] = "none"]
  /\ keepAliveInterval' = FALSE
  /\ ws' = 0
  /\ icon' = "gray"
  /\ everLost' = TRUE
  /\ UNCHANGED <<reconnectTimers, startups, serverUp>>

\* ws.onclose (a refused attempt or a lost session): stopKeepAlive(),
\* ws = null, updateIcon(), setTimeout(connect, 3000).
wsOnClose(s) ==
  /\ cliSock[s] \in {"CONNECTING", "OPEN"}
  /\ ~serverUp
  /\ cliSock' = [cliSock EXCEPT ![s] = "none"]
  /\ keepAliveInterval' = FALSE
  /\ ws' = 0
  /\ icon' = IconColor(ws', cliSock', sessionEnabled)
  /\ reconnectTimers' = reconnectTimers + 1
  /\ everLost' = TRUE
  /\ UNCHANGED <<startups, serverUp>>

\* ws.onerror: logs only.
wsOnError(s) ==
  /\ cliSock[s] \in {"CONNECTING", "OPEN"}
  /\ ~serverUp
  /\ UNCHANGED <<reconnectVars, icon, captureVars>>

\* The callback of setTimeout(connect, 3000).
reconnectTimerFires ==
  /\ reconnectTimers > 0
  /\ reconnectTimers' = reconnectTimers - 1
  /\ connect
  /\ UNCHANGED <<keepAliveInterval, startups, serverUp, everLost, icon>>

\* The callback of setInterval(..., 20000): writes a keepalive when `ws` is
\* open; no state of the extension changes.
keepAliveTick ==
  /\ keepAliveInterval
  /\ UNCHANGED <<reconnectVars, icon, captureVars>>

\* chrome.runtime.onStartup: connect() unless `ws` is an open socket.
runtimeOnStartup ==
  /\ startups < MaxStartups
  /\ startups' = startups + 1
  /\ IF ws = 0 \/ cliSock[ws] # "OPEN"
     THEN connect
     ELSE UNCHANGED <<ws, cliSock>>
  /\ UNCHANGED <<reconnectTimers, keepAliveInterval, serverUp, everLost, icon>>

\* The server process comes up (new WebSocketServer({port: WS_PORT})) ...
serverStarts ==
  /\ ~serverUp
  /\ serverUp' = TRUE
  /\ UNCHANGED <<ws, cliSock, reconnectTimers, keepAliveInterval, startups,
                 everLost, icon>>

\* ... and goes away; its sessions are lost (ws.onclose follows).
serverStops ==
  /\ serverUp
  /\ serverUp' = FALSE
  /\ UNCHANGED <<ws, cliSock, reconnectTimers, keepAliveInterval, startups,
                 everLost, icon>>

NextReconnect ==
  \/ (\E s \in CliSocks : wsOnOpen(s)) /\ UNCHANGED <<bridgeVars, controlVars, replayVars, captureVars>>
  \/ (\E s \in CliSocks : wsOnClose(s)) /\ UNCHANGED <<bridgeVars, controlVars, replayVars, captureVars>>
  \/ (\E s \in CliSocks : wsOnError(s)) /\ UNCHANGED <<bridgeVars, controlVars, replayVars, captureVars>>
  \/ reconnectTimerFires /\ UNCHANGED <<bridgeVars, controlVars, replayVars, captureVars>>
  \/ keepAliveTick /\ UNCHANGED <<bridgeVars, controlVars, replayVars, captureVars>>
  \/ runtimeOnStartup /\ UNCHANGED <<bridgeVars, controlVars, replayVars, captureVars>>
  \/ serverStarts /\ UNCHANGED <<bridgeVars, controlVars, replayVars, captureVars>>
  \/ serverStops /\ UNCHANGED <<bridgeVars, controlVars, replayVars, captureVars>>

(***************************************************************************)
(* Extension: control state (sessionEnabled, connectedTabId)               *)
(***************************************************************************)
NoResult == [op |-> "none", res |-> "", tab |-> 0, off |-> FALSE, dis |-> FALSE,
             host |-> FALSE, on |-> 0]

\* The state after loadSessionState(): sessionEnabled is what was stored.
InitControl(stored) ==
  /\ sessionEnabled = stored
  /\ storedSession = stored
  /\ connectedTabId = 0
  /\ tabs = {1}
  /\ nextTabId = 1
  /\ removedQ = {}
  /\ task = EmptyBag
  /\ offDone = FALSE
  /\ lastResult = NoResult

\* Bound on the concurrency of the extension: fewer than MaxTask operations
\* are suspended at an await, and at most one invocation of each operation.
CanSuspend(op) ==
  /\ BagCardinality(task) < MaxTask
  /\ \A r \in BagToSet(task) : r.op # op
Suspended(r) == BagIn(r, task)

\* toggleSession(), up to `await saveSessionState()`: the flag is flipped
\* and chrome.storage.local.set({sessionEnabled}) is called.  The record keeps
\* in `found` whether a tab was targeted at the flip.
toggleSession ==
  /\ CanSuspend("toggle")
  /\ sessionEnabled' = ~sessionEnabled
  /\ storedSession' = ~sessionEnabled
  /\ task' = task (+) SetToBag({[op |-> "toggle", pc |-> "save", tab |-> 0,
                                 en |-> FALSE, found |-> connectedTabId # 0]})
  /\ offDone' = FALSE
  /\ lastResult' = NoResult
  /\ UNCHANGED <<connectedTabId, tabs, nextTabId, removedQ, icon>>

\* toggleSession() resumes after saveSessionState() and calls updateIcon().
toggleSaved(r) ==
  /\ Suspended(r) /\ r.op = "toggle" /\ r.pc = "save"
  /\ task' = (task (-) SetToBag({r})) (+) SetToBag({[r EXCEPT !.pc = "icon"]})
  /\ icon' = IconColor(ws, cliSock, sessionEnabled)
  /\ lastResult' = NoResult
  /\ UNCHANGED <<sessionEnabled, connectedTabId, storedSession, tabs,
                 nextTabId, removedQ, offDone>>

\* toggleSession() resumes after updateIcon(): if (!sessionEnabled)
\* connectedTabId = null; return sessionEnabled.
toggleDone(r) ==
  /\ Suspended(r) /\ r.op = "toggle" /\ r.pc = "icon"
  /\ connectedTabId' = IF ~sessionEnabled THEN 0 ELSE connectedTabId
  /\ offDone' = IF ~sessionEnabled /\ r.found THEN TRUE ELSE offDone
  /\ task' = task (-) SetToBag({r})
  /\ lastResult' = [op |-> "toggle", res |-> IF sessionEnabled THEN "on" ELSE "off",
                    tab |-> 0, off |-> FALSE, dis |-> FALSE, host |-> FALSE, on |-> 0]
  /\ UNCHANGED <<sessionEnabled, storedSession, tabs, nextTabId, removedQ, icon>>

\* listTabs(): [] when the session is disabled, else one entry per tab that
\* chrome.tabs.query({}) returns.
listTabs ==
  /\ lastResult' = [op |-> "list_tabs",
                    res |-> IF ~sessionEnabled \/ tabs = {} THEN "none" ELSE "surfaces",
                    tab |-> 0, off |-> FALSE, dis |-> ~sessionEnabled,
                    host |-> sessionEnabled, on |-> 0]
  /\ UNCHANGED <<sessionEnabled, connectedTabId, storedSession, tabs, nextTabId,
                 removedQ, task, offDone, icon>>

\* connectTab(tabId), up to `await chrome.tabs.get(tabId)`.
connectTab(tabId) ==
  /\ CanSuspend("connect_tab")
  /\ IF ~sessionEnabled
     THEN /\ lastResult' = [op |-> "connect_tab", res |-> "ControlDisabled",
                            tab |-> tabId, off |-> FALSE, dis |-> TRUE, host |-> FALSE, on |-> 0]
          /\ UNCHANGED task
     ELSE /\ task' = task (+) SetToBag({[op |-> "connect_tab", pc |-> "get", tab |-> tabId,
                                         en |-> TRUE, found |-> FALSE]})
          /\ lastResult' = NoResult
  /\ UNCHANGED <<sessionEnabled, connectedTabId, storedSession, tabs, nextTabId,
                 removedQ, offDone, icon>>

\* The browser answers chrome.tabs.get(tabId): the tab, or a rejection when
\* no tab has that id.  The continuation of connectTab runs later.
chromeTabsGet(r) ==
  /\ Suspended(r) /\ r.op = "connect_tab" /\ r.pc = "get"
  /\ task' = (task (-) SetToBag({r}))
               (+) SetToBag({[r EXCEPT !.pc = "got", !.found = r.tab \in tabs]})
  /\ lastResult' = NoResult
  /\ UNCHANGED <<sessionEnabled, connectedTabId, storedSession, tabs,
                 nextTabId, removedQ, offDone, icon>>

\* connectTab resumes: the rejection of chrome.tabs.get is thrown, else
\* connectedTabId = tabId.
connectTabResumes(r) ==
  /\ Suspended(r) /\ r.op = "connect_tab" /\ r.pc = "got"
  /\ LET tabId == r.tab
     IN  /\ connectedTabId' = IF r.found THEN tabId ELSE connectedTabId
         /\ lastResult' = [op |-> "connect_tab",
                           res |-> IF r.found THEN "ok" ELSE "TargetNotFound",
                           tab |-> tabId, off |-> FALSE, dis |-> ~r.en, host |-> TRUE, on |-> 0]
  /\ task' = task (-) SetToBag({r})
  /\ UNCHANGED <<sessionEnabled, storedSession, tabs, nextTabId, removedQ, offDone, icon>>

\* disconnectTab()
disconnectTab ==
  /\ connectedTabId' = 0
  /\ lastResult' = [op |-> "disconnect_tab", res |-> "ok", tab |-> 0,
                    off |-> FALSE, dis |-> FALSE, host |-> FALSE, on |-> 0]
  /\ UNCHANGED <<sessionEnabled, storedSession, tabs, nextTabId, removedQ, task,
                 offDone, icon>>

\* A command that passes the tab id to the host API and never asks whether a
\* target is set.
requireConnectedTab_NoCheck ==
  /\ lastResult' = [op |-> "command",
                    res |-> IF connectedTabId \in tabs THEN "acted" ELSE "TargetNotFound",
                    tab |-> 0, off |-> offDone, dis |-> FALSE,
                    host |-> TRUE, on |-> 0]
  /\ UNCHANGED <<sessionEnabled, connectedTabId, storedSession, tabs, nextTabId,
                 removedQ, task, offDone, icon>>

\* requireConnectedTab(), as called first by navigate, click, type,
\* selectOption, pressKey, hover, ...: throws 'No tab connected' when
\* connectedTabId is null, else the command calls chrome.tabs.update or
\* chrome.scripting.executeScript with that tab id, which rejects when no tab
\* has the id.
requireConnectedTab ==
  /\ lastResult' = [op |-> "command",
                    res |-> IF connectedTabId = 0 THEN "NoTarget"
                            ELSE IF connectedTabId \in tabs THEN "acted"
                            ELSE "TargetNotFound",
                    tab |-> 0, off |-> offDone, dis |-> FALSE,
                    host |-> connectedTabId # 0,
                    on |-> IF connectedTabId \in tabs THEN connectedTabId ELSE 0]
  /\ UNCHANGED <<sessionEnabled, connectedTabId, storedSession, tabs, nextTabId,
                 removedQ, task, offDone, icon>>

\* The server's handler of a tab-operating tool (browser_navigate,
\* browser_click, browser_type, ...) called with args.tabId = tabId, 0 for a
\* call without it: sendToExtension(method, {...}) is given the tool's own
\* parameters and not the tab id, and the command of the extension takes the
\* tab from requireConnectedTab().  `tab` is the tab that was asked for, `on`
\* the tab that the host API was called with.
browserTool(tabId) ==
  /\ lastResult' = [op |-> "tool",
                    res |-> IF connectedTabId = 0 THEN "NoTarget"
                            ELSE IF connectedTabId \in tabs THEN "acted"
                            ELSE "TargetNotFound",
                    tab |-> tabId, off |-> offDone, dis |-> FALSE,
                    host |-> connectedTabId # 0,
                    on |-> IF connectedTabId \in tabs THEN connectedTabId ELSE 0]
  /\ UNCHANGED <<sessionEnabled, connectedTabId, storedSession, tabs, nextTabId,
                 removedQ, task, offDone, icon>>

\* getPageInfo(): `if (!connectedTabId) throw`, then
\* chrome.tabs.get(connectedTabId).
getPageInfo ==
  /\ lastResult' = [op |-> "get_page_info",
                    res |-> IF connectedTabId = 0 THEN "NoTarget"
                            ELSE IF connectedTabId \in tabs THEN "acted"
                            ELSE "TargetNotFound",
                    tab |-> 0, off |-> FALSE, dis |-> FALSE,
                    host |-> connectedTabId # 0, on |-> 0]
  /\ UNCHANGED <<sessionEnabled, connectedTabId, storedSession, tabs, nextTabId,
                 removedQ, task, offDone, icon>>

\* uploadFile(params): `if (!connectedTabId) throw`, then
\* chrome.scripting.executeScript({target: {tabId: connectedTabId}, ...}).
uploadFile ==
  /\ lastResult' = [op |-> "upload_file",
                    res |-> IF connectedTabId = 0 THEN "NoTarget"
                            ELSE IF connectedTabId \in tabs THEN "acted"
                            ELSE "TargetNotFound",
                    tab |-> 0, off |-> FALSE, dis |-> FALSE,
                    host |-> connectedTabId # 0, on |-> 0]
  /\ UNCHANGED <<sessionEnabled, connectedTabId, storedSession, tabs, nextTabId,
                 removedQ, task, offDone, icon>>

\* screenshot(): requireConnectedTab(), then
\* chrome.tabs.captureVisibleTab(null, ...): the call is given no tab id and
\* captures the visible tab of the current window.
screenshot ==
  /\ lastResult' = [op |-> "screenshot",
                    res |-> IF connectedTabId = 0 THEN "NoTarget"
                            ELSE IF tabs # {} THEN "acted"
                            ELSE "TargetNotFound",
                    tab |-> 0, off |-> FALSE, dis |-> FALSE,
                    host |-> connectedTabId # 0, on |-> 0]
  /\ UNCHANGED <<sessionEnabled, connectedTabId, storedSession, tabs, nextTabId,
                 removedQ, task, offDone, icon>>

\* A createTab that makes the new tab the target.
createTab_Targets ==
  /\ nextTabId < MaxTab
  /\ nextTabId' = nextTabId + 1
  /\ tabs' = tabs \cup {nextTabId + 1}
  /\ connectedTabId' = nextTabId + 1
  /\ lastResult' = [op |-> "tab_new", res |-> "ok", tab |-> 0, off |-> FALSE,
                    dis |-> ~sessionEnabled, host |-> TRUE, on |-> 0]
  /\ UNCHANGED <<sessionEnabled, storedSession, removedQ, task, offDone, icon>>

\* createTab(url): chrome.tabs.create opens the tab and the call returns
\* {success: true, tabId: tab.id, url: tab.url}.
createTab ==
  /\ nextTabId < MaxTab
  /\ nextTabId' = nextTabId + 1
  /\ tabs' = tabs \cup {nextTabId + 1}
  /\ lastResult' = [op |-> "tab_new", res |-> "ok", tab |-> 0, off |-> FALSE,
                    dis |-> ~sessionEnabled, host |-> TRUE, on |-> 0]
  /\ UNCHANGED <<sessionEnabled, connectedTabId, storedSession, removedQ, task,
                 offDone, icon>>

\* closeTab(tabId), up to `await chrome.tabs.remove(targetTabId)`; tabId = 0
\* stands for a call without tabId.  The browser removes the tab and queues
\* the onRemoved event, or rejects when no tab has the id.
closeTab(tabId) ==
  /\ CanSuspend("tab_close")
  /\ LET targetTabId == IF tabId # 0 THEN tabId ELSE connectedTabId
     IN  IF targetTabId = 0
         THEN /\ lastResult' = [op |-> "tab_close", res |-> "NoTarget", tab |-> 0,
                                off |-> FALSE, dis |-> ~sessionEnabled, host |-> FALSE, on |-> 0]
              /\ UNCHANGED <<task, tabs, removedQ>>
         ELSE /\ task' = task (+) SetToBag({[op |-> "tab_close", pc |-> "remove",
                                             tab |-> targetTabId, en |-> sessionEnabled,
                                             found |-> targetTabId \in tabs]})
              /\ tabs' = tabs \ {targetTabId}
              /\ removedQ' = IF targetTabId \in tabs THEN removedQ \cup {targetTabId}
                             ELSE removedQ
              /\ lastResult' = NoResult
  /\ UNCHANGED <<sessionEnabled, connectedTabId, storedSession, nextTabId, offDone, icon>>

\* closeTab resumes: the rejection of chrome.tabs.remove is thrown, else
\* `if (targetTabId === connectedTabId) connectedTabId = null`.
closeTabResumes(r) ==
  /\ Suspended(r) /\ r.op = "tab_close" /\ r.pc = "remove"
  /\ connectedTabId' = IF r.found /\ r.tab = connectedTabId THEN 0 ELSE connectedTabId
  /\ lastResult' = [op |-> "tab_close",
                    res |-> IF r.found THEN "ok" ELSE "TargetNotFound",
                    tab |-> 0, off |-> FALSE, dis |-> ~r.en, host |-> TRUE, on |-> 0]
  /\ task' = task (-) SetToBag({r})
  /\ UNCHANGED <<sessionEnabled, storedSession, tabs, nextTabId, removedQ, offDone, icon>>

\* The user opens a tab.
tabOpened ==
  /\ nextTabId < MaxTab
  /\ nextTabId' = nextTabId + 1
  /\ tabs' = tabs \cup {nextTabId + 1}
  /\ lastResult' = NoResult
  /\ UNCHANGED <<sessionEnabled, connectedTabId, storedSession, removedQ, task,
                 offDone, icon>>

\* The user closes a tab; chrome queues the onRemoved event.
tabClosed(tabId) ==
  /\ tabId \in tabs
  /\ tabs' = tabs \ {tabId}
  /\ removedQ' = removedQ \cup {tabId}
  /\ lastResult' = NoResult
  /\ UNCHANGED <<sessionEnabled, connectedTabId, storedSession, nextTabId,
                 task, offDone, icon>>

\* chrome.tabs.onRemoved listener
tabsOnRemoved(tabId) ==
  /\ tabId \in removedQ
  /\ removedQ' = removedQ \ {tabId}
  /\ connectedTabId' = IF connectedTabId = tabId THEN 0 ELSE connectedTabId
  /\ lastResult' = NoResult
  /\ UNCHANGED <<sessionEnabled, storedSession, tabs, nextTabId, task, offDone,
                 icon>>

NextControl ==
  \/ toggleSession /\ UNCHANGED <<bridgeVars, reconnectVars, replayVars, captureVars>>
  \/ (\E r \in BagToSet(task) : toggleSaved(r)) /\ UNCHANGED <<bridgeVars, reconnectVars, replayVars, captureVars>>
  \/ (\E r \in BagToSet(task) : toggleDone(r)) /\ UNCHANGED <<bridgeVars, reconnectVars, replayVars, captureVars>>
  \/ listTabs /\ UNCHANGED <<bridgeVars, reconnectVars, replayVars, captureVars>>
  \/ (\E tabId \in TabIds : connectTab(tabId)) /\ UNCHANGED <<bridgeVars, reconnectVars, replayVars, captureVars>>
  \/ (\E r \in BagToSet(task) : chromeTabsGet(r))
       /\ UNCHANGED <<bridgeVars, reconnectVars, replayVars, captureVars>>
  \/ (\E r \in BagToSet(task) : connectTabResumes(r))
       /\ UNCHANGED <<bridgeVars, reconnectVars, replayVars, captureVars>>
  \/ disconnectTab /\ UNCHANGED <<bridgeVars, reconnectVars, replayVars, captureVars>>
  \/ requireConnectedTab /\ UNCHANGED <<bridgeVars, reconnectVars, replayVars, captureVars>>
  \/ getPageInfo /\ UNCHANGED <<bridgeVars, reconnectVars, replayVars, captureVars>>
  \/ uploadFile /\ UNCHANGED <<bridgeVars, reconnectVars, replayVars, captureVars>>
  \/ screenshot /\ UNCHANGED <<bridgeVars, reconnectVars, replayVars, captureVars>>
  \/ createTab /\ UNCHANGED <<bridgeVars, reconnectVars, replayVars, captureVars>>
  \/ (\E tabId \in 0..MaxTab : closeTab(tabId))
       /\ UNCHANGED <<bridgeVars, reconnectVars, replayVars, captureVars>>
  \/ (\E r \in BagToSet(task) : closeTabResumes(r))
       /\ UNCHANGED <<bridgeVars, reconnectVars, replayVars, captureVars>>
  \/ tabOpened /\ UNCHANGED <<bridgeVars, reconnectVars, replayVars, captureVars>>
  \/ (\E tabId \in TabIds : tabClosed(tabId)) /\ UNCHANGED <<bridgeVars, reconnectVars, replayVars, captureVars>>
  \/ (\E tabId \in TabIds : tabsOnRemoved(tabId)) /\ UNCHANGED <<bridgeVars, reconnectVars, replayVars, captureVars>>

\* Issuers that connect tabs and call tab-operating tools, some with a tab
\* id, while tabs are created.
NextParallel ==
  \/ (\E tabId \in TabIds : connectTab(tabId)) /\ UNCHANGED <<bridgeVars, reconnectVars, replayVars, captureVars>>
  \/ (\E r \in BagToSet(task) : chromeTabsGet(r))
       /\ UNCHANGED <<bridgeVars, reconnectVars, replayVars, captureVars>>
  \/ (\E r \in BagToSet(task) : connectTabResumes(r))
       /\ UNCHANGED <<bridgeVars, reconnectVars, replayVars, captureVars>>
  \/ disconnectTab /\ UNCHANGED <<bridgeVars, reconnectVars, replayVars, captureVars>>
  \/ (\E tabId \in 0..MaxTab : browserTool(tabId))
       /\ UNCHANGED <<bridgeVars, reconnectVars, replayVars, captureVars>>
  \/ createTab /\ UNCHANGED <<bridgeVars, reconnectVars, replayVars, captureVars>>
  \/ (\E tabId \in TabIds : tabClosed(tabId)) /\ UNCHANGED <<bridgeVars, reconnectVars, replayVars, captureVars>>
  \/ (\E tabId \in TabIds : tabsOnRemoved(tabId)) /\ UNCHANGED <<bridgeVars, reconnectVars, replayVars, captureVars>>

(***************************************************************************)
(* Server: replayRecordingFromDisk                                         *)
(***************************************************************************)
\* The kinds of action a recording can hold: action.type is one of the six
\* tags of the recorder or "other" for any other tag; for an upload, file is
\* what `action.filePath && existsSync(action.filePath)` and
\* readFileSync(action.filePath) find on disk.
ActionOrder ==
  << [type |-> "upload", file |-> "missing"],
     [type |-> "navigate", file |-> "none"],
     [type |-> "click", file |-> "none"],
     [type |-> "type", file |-> "none"],
     [type |-> "select", file |-> "none"],
     [type |-> "keypress", file |-> "none"],
     [type |-> "upload", file |-> "usable"],
     [type |-> "upload", file |-> "unreadable"],
     [type |-> "other", file |-> "none"] >>

\* The recordings that are replayed: up to MaxAct actions, each kind at most
\* once and in the order of ActionOrder (every iteration of the replay is
\* handled alike, whatever came before it).
Recordings ==
  UNION {{[k \in 1..n |-> ActionOrder[f[k]]] :
            f \in {g \in [1..n -> 1..Len(ActionOrder)] :
                     \A a, b \in 1..n : a < b => g[a] < g[b]}} :
         n \in 0..MaxAct}

\* The arms of the switch that call sendToExtension.
Sends(action) ==
  \/ action.type \in {"navigate", "click", "type", "select", "keypress"}
  \/ action.type = "upload" /\ action.file = "usable"

\* The setTimeout that follows `await sendToExtension(...)` in the arm, in ms.
SettleDelay(type) ==
  CASE type = "navigate" -> 1000
    [] type = "click" -> 300
    [] type \in {"type", "select", "keypress"} -> 100
    [] OTHER -> 0

InitReplay ==
  /\ recording = <<>>
  /\ replay = [pc |-> "idle", i |-> 0, id |-> 0, executed |-> 0]
  /\ results = <<>>

\* results.push({action: action.type, selector, success: true, result}) and
\* results.push({action: action.type, selector, success: false, error}).
Entry(action, success, result, error, waited) ==
  [action |-> action.type, success |-> success, result |-> result, error |-> error,
   waited |-> waited]

\* An upload arm and a default arm that throw where the code skips.
SyncEntry_SkipThrows(action) ==
  IF Sends(action) THEN Entry(action, FALSE, "", "NotConnected", 0)
  ELSE IF action.type = "upload" /\ action.file = "unreadable"
       THEN Entry(action, FALSE, "", "ReadError", 0)
       ELSE Entry(action, FALSE, "", "skipped", 0)

\* The entry of an iteration that reaches results.push without waiting for an
\* event: the upload and default arms that skip, an exception of
\* readFileSync, and a sendToExtension that rejects at once because
\* extensionSocket is null.
SyncEntry(action) ==
  IF Sends(action) THEN Entry(action, FALSE, "", "NotConnected", 0)
  ELSE IF action.type = "upload" /\ action.file = "unreadable"
       THEN Entry(action, FALSE, "", "ReadError", 0)
       ELSE Entry(action, TRUE, "skipped", "", 0)

\* The first iteration from i on whose arm calls sendToExtension.
NextSend(rec, i) ==
  IF \E j \in i..Len(rec) : Sends(rec[j])
  THEN CHOOSE j \in i..Len(rec) : Sends(rec[j]) /\ \A k \in i..(j - 1) : ~Sends(rec[k])
  ELSE Len(rec) + 1

\* The entries of the iterations i..(j - 1), none of which waits.
SyncEntries(rec, i, j) == [k \in 1..(j - i) |-> SyncEntry(rec[i + k - 1])]

\* `for (const action of recording.actions)` runs on from iteration i with
\* the entries res, within the turn of the event loop that resumed it: up to
\* the first call of sendToExtension that registers a request, or to the
\* return {success: true, recording: name, actionsExecuted: results.length,
\* results}.  While extensionSocket is null every call rejects at once.
Continue(rec, res, i) ==
  IF extensionSocket = 0
  THEN /\ results' = res \o SyncEntries(rec, i, Len(rec) + 1)
       /\ replay' = [pc |-> "done", i |-> Len(rec) + 1, id |-> 0,
                     executed |-> Len(res) + (Len(rec) + 1 - i)]
       /\ ncCalls' = ncCalls + Cardinality({k \in i..Len(rec) : Sends(rec[k])})
       /\ UNCHANGED <<extensionSocket, pendingRequests, requestId, timers, srvSock,
                      outcome, settles, removes, sentOn, matched, preResp, lateResp>>
  ELSE LET j == NextSend(rec, i)
       IN  /\ results' = res \o SyncEntries(rec, i, j)
           /\ IF j > Len(rec)
              THEN /\ replay' = [pc |-> "done", i |-> j, id |-> 0,
                                 executed |-> Len(res) + (j - i)]
                   /\ UNCHANGED bridgeVars
              ELSE /\ replay' = [pc |-> "await", i |-> j, id |-> requestId + 1,
                                 executed |-> 0]
                   /\ sendToExtension

\* replayRecordingFromDisk(name): getRecordingFromDisk(name) returned the
\* recording, const results = [], and the loop starts.
replayRecordingFromDisk(rec) ==
  /\ replay.pc = "idle"
  /\ recording' = rec
  /\ Continue(rec, <<>>, 1)

\* A replay that a rejected command aborts.
replayResumes_Throws ==
  /\ replay.pc = "await"
  /\ outcome[replay.id].kind \in {"result", "RemoteError", "Timeout", "TransportLost"}
  /\ LET action == recording[replay.i]
         settled == outcome[replay.id]
     IN  IF settled.kind = "result"
         THEN IF SettleDelay(action.type) > 0
              THEN /\ replay' = [replay EXCEPT !.pc = "settle"]
                   /\ UNCHANGED <<results, bridgeVars>>
              ELSE Continue(recording,
                            Append(results, Entry(action, TRUE, settled.msg, "", 0)),
                            replay.i + 1)
         ELSE /\ replay' = [replay EXCEPT !.pc = "failed"]
              /\ UNCHANGED <<results, bridgeVars>>
  /\ UNCHANGED recording

\* A replay that pushes the entry without the setTimeout of the arm.
replayResumes_NoSettle ==
  /\ replay.pc = "await"
  /\ outcome[replay.id].kind \in {"result", "RemoteError", "Timeout", "TransportLost"}
  /\ LET action == recording[replay.i]
         settled == outcome[replay.id]
     IN  IF settled.kind = "result"
         THEN Continue(recording,
                       Append(results, Entry(action, TRUE, settled.msg, "", 0)),
                       replay.i + 1)
         ELSE Continue(recording,
                       Append(results, Entry(action, FALSE, "", settled.kind, 0)),
                       replay.i + 1)
  /\ UNCHANGED recording

\* A replay whose catch block pushes nothing.
replayResumes_DropFailed ==
  /\ replay.pc = "await"
  /\ outcome[replay.id].kind \in {"result", "RemoteError", "Timeout", "TransportLost"}
  /\ LET action == recording[replay.i]
         settled == outcome[replay.id]
     IN  IF settled.kind = "result"
         THEN IF SettleDelay(action.type) > 0
              THEN /\ replay' = [replay EXCEPT !.pc = "settle"]
                   /\ UNCHANGED <<results, bridgeVars>>
              ELSE Continue(recording,
                            Append(results, Entry(action, TRUE, settled.msg, "", 0)),
                            replay.i + 1)
         ELSE Continue(recording, results, replay.i + 1)
  /\ UNCHANGED recording

\* A replay that goes on to the next iteration while the request is pending.
replayResumes_NoAwait ==
  /\ replay.pc = "await"
  /\ LET action == recording[replay.i]
         settled == outcome[replay.id]
     IN  IF settled.kind \in {"result", "pending"}
         THEN IF SettleDelay(action.type) > 0
              THEN /\ replay' = [replay EXCEPT !.pc = "settle"]
                   /\ UNCHANGED <<results, bridgeVars>>
              ELSE Continue(recording,
                            Append(results, Entry(action, TRUE, settled.msg, "", 0)),
                            replay.i + 1)
         ELSE Continue(recording,
                       Append(results, Entry(action, FALSE, "", settled.kind, 0)),
                       replay.i + 1)
  /\ UNCHANGED recording

\* The iteration resumes from `await sendToExtension(...)`: with the result,
\* it arms the setTimeout of its arm (the upload arm has none and pushes the
\* entry); with a rejection, the catch block pushes the entry.
replayResumes ==
  /\ replay.pc = "await"
  /\ outcome[replay.id].kind \in {"result", "RemoteError", "Timeout", "TransportLost"}
  /\ LET action == recording[replay.i]
         settled == outcome[replay.id]
     IN  IF settled.kind = "result"
         THEN IF SettleDelay(action.type) > 0
              THEN /\ replay' = [replay EXCEPT !.pc = "settle"]
                   /\ UNCHANGED <<results, bridgeVars>>
              ELSE Continue(recording,
                            Append(results, Entry(action, TRUE, settled.msg, "", 0)),
                            replay.i + 1)
         ELSE Continue(recording,
                       Append(results, Entry(action, FALSE, "", settled.kind, 0)),
                       replay.i + 1)
  /\ UNCHANGED recording

\* The setTimeout of the arm fires: break, then results.push({..., success:
\* true, result}), and the loop goes on.
settleTimerFires ==
  /\ replay.pc = "settle"
  /\ LET action == recording[replay.i]
     IN  Continue(recording,
                  Append(results, Entry(action, TRUE, outcome[replay.id].msg, "",
                                        SettleDelay(action.type))),
                  replay.i + 1)
  /\ UNCHANGED recording

\* The extension answers a Request that is waiting for its Response:
\* handleMessage sends one Response per Request, {id, result} or {id, error:
\* error.message} with the message of the Error that the command threw.
executorResponds(s, data) ==
  /\ data.type = "response"
  /\ data.error \in {"<absent>", "boom"}
  /\ data.id \in pendingRequests
  /\ sentOn[data.id] = s
  /\ socketOnMessage(s, data)

\* The extension holds one WebSocket at a time: it connects again after its
\* session was closed.
extensionConnects(s) ==
  /\ \A t \in Socks : srvSock[t] \in {"none", "closed"}
  /\ wssOnConnection(s)

NextReplay ==
  \/ (replay.pc = "idle" /\ \E rec \in Recordings : replayRecordingFromDisk(rec))
       /\ UNCHANGED <<reconnectVars, icon, controlVars, captureVars>>
  \/ replayResumes /\ UNCHANGED <<reconnectVars, icon, controlVars, captureVars>>
  \/ settleTimerFires /\ UNCHANGED <<reconnectVars, icon, controlVars, captureVars>>
  \/ (\E s \in Socks : extensionConnects(s))
       /\ UNCHANGED <<reconnectVars, icon, controlVars, replayVars, captureVars>>
  \/ (\E s \in Socks, data \in ExtData : executorResponds(s, data))
       /\ UNCHANGED <<reconnectVars, icon, controlVars, replayVars, captureVars>>
  \/ (\E s \in Socks : socketOnClose(s))
       /\ UNCHANGED <<reconnectVars, icon, controlVars, replayVars, captureVars>>
  \/ (\E id \in pendingRequests : timeoutCallback(id))
       /\ UNCHANGED <<reconnectVars, icon, controlVars, replayVars, captureVars>>

(***************************************************************************)
(* Recorder: content script (recorder.js) and background (background.js)   *)
(***************************************************************************)
(* ---- bounds ---- *)
MaxOps == 2        \* operations the user performs on the page
MaxStart == 2      \* recordings the user starts
MaxField == 1      \* text-like fields of the page
MaxNameLen == 2    \* characters of a recording name
MaxNodes == 2      \* elements of the document below the body
MaxDel == 1        \* delete_recording commands in flight at once

Fields == 1..MaxField

\* The characters of a name that /[^a-zA-Z0-9-_]/ does not match.
SafeChars == {"a", "_"}

\* A name is the sequence of its characters: a letter, the underscore, and
\* a character that /[^a-zA-Z0-9-_]/ matches.
Names == UNION {[1..n -> {"a", "_", "."}] : n \in 1..MaxNameLen}

\* The names the popup saves under (recordingNameInput.value.trim(), not
\* empty).
RecNames == {n \in Names : Len(n) = 1 /\ n[1] \in SafeChars}

\* The tab that chrome.tabs.query({active: true, currentWindow: true})
\* returns.
ActiveTab == 1

\* The action of a record_action message: sel is the field the selector
\* names (0 = another element, or no selector), value is el.value of a type
\* action, op is the number of the user's operation that the action records
\* (0 = the page load that handleNavigation records).
Action(type, sel, value, op) ==
  [type |-> type, sel |-> sel, value |-> value, op |-> op]

NoRec == [op |-> "none", res |-> "", name |-> <<>>, empty |-> FALSE]

InitRecorder ==
  /\ isRecording = FALSE
  /\ currentRecording = <<>>
  /\ lastSaved = TRUE
  /\ recordingTabId = 0
  /\ recTask = {}
  /\ storage = <<>>
  /\ lastRec = NoRec
  /\ injected = FALSE
  /\ recorderIsRecording = FALSE
  /\ inputTimeout = [f \in Fields |-> 0]
  /\ fieldValue = [f \in Fields |-> 0]
  /\ msgQ = <<>>
  /\ opCount = 0
  /\ superseded = {}
  /\ cleanStart = FALSE
  /\ starts = 0

\* recordAction(action): `if (!isRecording) return`, else
\* chrome.runtime.sendMessage({type: 'record_action', action}).
recordAction(action) ==
  msgQ' = IF recorderIsRecording
          THEN Append(msgQ, [type |-> "record_action", action |-> action])
          ELSE msgQ

\* The user clicks an element, changes a select or a file input, or presses
\* one of the special keys while the listeners are attached: handleClick,
\* handleInput (file and SELECT branches) and handleKeydown call
\* recordAction within the event.
userEvent(type) ==
  /\ injected /\ recorderIsRecording
  /\ opCount < MaxOps
  /\ opCount' = opCount + 1
  /\ recordAction(Action(type, 0, 0, opCount + 1))
  /\ lastRec' = NoRec
  /\ UNCHANGED <<isRecording, currentRecording, lastSaved, recordingTabId, recTask,
                 storage, injected, recorderIsRecording, inputTimeout, fieldValue,
                 superseded, cleanStart, starts>>

\* handleInput with every edit arming its own timer.
userEdit_NoClear(f) ==
  /\ injected /\ recorderIsRecording
  /\ opCount < MaxOps
  /\ opCount' = opCount + 1
  /\ fieldValue' = [fieldValue EXCEPT ![f] = opCount + 1]
  /\ superseded' = IF inputTimeout[f] > 0 THEN superseded \cup {fieldValue[f]}
                   ELSE superseded
  /\ inputTimeout' = [inputTimeout EXCEPT ![f] = @ + 1]
  /\ lastRec' = NoRec
  /\ UNCHANGED <<isRecording, currentRecording, lastSaved, recordingTabId, recTask,
                 storage, injected, recorderIsRecording, msgQ, cleanStart, starts>>

\* The user commits an edit of a text field (a change event on an input or
\* textarea): handleInput, last branch: clearTimeout(el.__mcpInputTimeout),
\* then el.__mcpInputTimeout = setTimeout(..., 500).
userEdit(f) ==
  /\ injected /\ recorderIsRecording
  /\ opCount < MaxOps
  /\ opCount' = opCount + 1
  /\ fieldValue' = [fieldValue EXCEPT ![f] = opCount + 1]
  /\ superseded' = IF inputTimeout[f] > 0 THEN superseded \cup {fieldValue[f]}
                   ELSE superseded
  /\ inputTimeout' = [inputTimeout EXCEPT ![f] = 1]
  /\ lastRec' = NoRec
  /\ UNCHANGED <<isRecording, currentRecording, lastSaved, recordingTabId, recTask,
                 storage, injected, recorderIsRecording, msgQ, cleanStart, starts>>

\* The 500 ms timer of a field fires: recordAction({type: 'type', selector,
\* value: el.value}).
inputTimerFires(f) ==
  /\ inputTimeout[f] > 0
  /\ inputTimeout' = [inputTimeout EXCEPT ![f] = @ - 1]
  /\ recordAction(Action("type", f, fieldValue[f], fieldValue[f]))
  /\ lastRec' = NoRec
  /\ UNCHANGED <<isRecording, currentRecording, lastSaved, recordingTabId, recTask,
                 storage, injected, recorderIsRecording, fieldValue, opCount,
                 superseded, cleanStart, starts>>

\* The page of the tab is unloaded (navigation, reload, tab closed): the
\* content script and its timers are gone with it.
pageUnloads ==
  /\ injected
  /\ injected' = FALSE
  /\ recorderIsRecording' = FALSE
  /\ inputTimeout' = [f \in Fields |-> 0]
  /\ fieldValue' = [f \in Fields |-> 0]
  /\ lastRec' = NoRec
  /\ UNCHANGED <<isRecording, currentRecording, lastSaved, recordingTabId, recTask,
                 storage, msgQ, opCount, superseded, cleanStart, starts>>

\* The popup sends one request at a time and waits for its response
\* (toggleRecording and saveRecording of popup.js await sendMessage).
\* Commands of the server arrive over the WebSocket and do not wait for it.
CanRec(op) == \A r \in recTask : r.op = "delete"

RecTask(op, pc, name, snap) == [op |-> op, pc |-> pc, name |-> name, snap |-> snap]

NoStorage == [n \in {} |-> <<>>]

RecDone(op, res, name, empty) == [op |-> op, res |-> res, name |-> name, empty |-> empty]

\* chrome.runtime.onMessage, 'start_recording': startRecording() runs up to
\* `await chrome.tabs.query({active: true, currentWindow: true})`.
startRecording ==
  /\ CanRec("start")
  /\ starts < MaxStart
  /\ starts' = starts + 1
  /\ recTask' = recTask \cup {RecTask("start", "query", <<>>, NoStorage)}
  /\ lastRec' = NoRec
  /\ UNCHANGED <<isRecording, currentRecording, lastSaved, recordingTabId, storage,
                 injected, recorderIsRecording, inputTimeout, fieldValue, msgQ,
                 opCount, superseded, cleanStart>>

\* startRecording that keeps the buffer of the recording before.
startQueried_KeepsBuffer(r, active) ==
  /\ r.op = "start" /\ r.pc = "query"
  /\ IF ~active
     THEN /\ recTask' = recTask \ {r}
          /\ lastRec' = RecDone("start", "No active tab", <<>>, FALSE)
          /\ UNCHANGED <<isRecording, currentRecording, lastSaved, recordingTabId,
                         cleanStart, starts>>
     ELSE /\ recordingTabId' = ActiveTab
          /\ isRecording' = TRUE
          /\ currentRecording' = currentRecording
          /\ lastSaved' = FALSE
          /\ cleanStart' = (~isRecording /\ ~recorderIsRecording /\ msgQ = <<>>
                              /\ recTask = {r})
          /\ recTask' = (recTask \ {r}) \cup {[r EXCEPT !.pc = "inject"]}
          /\ lastRec' = NoRec
  /\ UNCHANGED <<storage, injected, recorderIsRecording, inputTimeout, fieldValue,
                 msgQ, opCount, superseded, starts>>

\* chrome.tabs.query answers: `if (!tabs[0]) throw new Error('No active
\* tab')`, else recordingTabId = tabs[0].id, isRecording = true,
\* currentRecording = [], lastSaved = false, up to `await
\* chrome.scripting.executeScript(...)`.
startQueried(r, active) ==
  /\ r.op = "start" /\ r.pc = "query"
  /\ IF ~active
     THEN /\ recTask' = recTask \ {r}
          /\ lastRec' = RecDone("start", "No active tab", <<>>, FALSE)
          /\ UNCHANGED <<isRecording, currentRecording, lastSaved, recordingTabId,
                         cleanStart, starts>>
     ELSE /\ recordingTabId' = ActiveTab
          /\ isRecording' = TRUE
          /\ currentRecording' = <<>>
          /\ lastSaved' = FALSE
          /\ cleanStart' = (~isRecording /\ ~recorderIsRecording /\ msgQ = <<>>
                              /\ recTask = {r})
          /\ recTask' = (recTask \ {r}) \cup {[r EXCEPT !.pc = "inject"]}
          /\ lastRec' = NoRec
  /\ UNCHANGED <<storage, injected, recorderIsRecording, inputTimeout, fieldValue,
                 msgQ, opCount, superseded, starts>>

\* executeScript({files: ['recorder.js']}) settles.  It rejects on a page
\* that admits no script; else recorder.js has run in the page (`if
\* (window.__mcpRecorderInjected) return` leaves a recorder that is there as
\* it is) and startRecording goes on to `await chrome.tabs.sendMessage(
\* recordingTabId, {type: 'start_recording'})`.
startInjected(r, admitted) ==
  /\ r.op = "start" /\ r.pc = "inject"
  /\ IF ~admitted
     THEN /\ recTask' = recTask \ {r}
          /\ lastRec' = RecDone("start", "Cannot access page", <<>>, FALSE)
          /\ UNCHANGED <<injected, recorderIsRecording>>
     ELSE /\ injected' = TRUE
          /\ recorderIsRecording' = (injected /\ recorderIsRecording)
          /\ recTask' = (recTask \ {r}) \cup {[r EXCEPT !.pc = "message"]}
          /\ lastRec' = NoRec
  /\ UNCHANGED <<isRecording, currentRecording, lastSaved, recordingTabId, storage,
                 inputTimeout, fieldValue, msgQ, opCount, superseded, cleanStart, starts>>

\* The content script receives 'start_recording': startRecording() of the
\* recorder sets isRecording = true, handleNavigation() records the page, and
\* the listeners are attached; sendResponse({success: true}) lets the
\* background's startRecording return.  Without a content script in the tab
\* chrome.tabs.sendMessage rejects and startRecording throws.
recorderStart(r) ==
  /\ r.op = "start" /\ r.pc = "message"
  /\ recTask' = recTask \ {r}
  /\ IF injected
     THEN /\ recorderIsRecording' = TRUE
          /\ msgQ' = Append(msgQ, [type |-> "record_action",
                                   action |-> Action("navigate", 0, 0, 0)])
          /\ lastRec' = RecDone("start", "ok", <<>>, FALSE)
     ELSE /\ lastRec' = RecDone("start", "Receiving end does not exist", <<>>, FALSE)
          /\ UNCHANGED <<recorderIsRecording, msgQ>>
  /\ UNCHANGED <<isRecording, currentRecording, lastSaved, recordingTabId, storage,
                 injected, inputTimeout, fieldValue, opCount, superseded, cleanStart, starts>>

\* chrome.runtime.onMessage, 'stop_recording': stopRecording() runs up to
\* `await chrome.tabs.sendMessage(recordingTabId, {type: 'stop_recording'})`,
\* or to its end when recordingTabId is null.
stopRecording ==
  /\ CanRec("stop")
  /\ IF recordingTabId # 0
     THEN /\ recTask' = recTask \cup {RecTask("stop", "message", <<>>, NoStorage)}
          /\ lastRec' = NoRec
          /\ UNCHANGED isRecording
     ELSE /\ isRecording' = FALSE
          /\ lastRec' = RecDone("stop", "ok", <<>>, FALSE)
          /\ UNCHANGED recTask
  /\ UNCHANGED <<currentRecording, lastSaved, recordingTabId, storage, injected,
                 recorderIsRecording, inputTimeout, fieldValue, msgQ, opCount,
                 superseded, cleanStart, starts>>

\* The content script receives 'stop_recording': stopRecording() of the
\* recorder sets isRecording = false and detaches the listeners, and
\* sendResponse({success: true}) follows the record_action messages sent
\* before it.  Without a content script in the tab sendMessage rejects, the
\* catch block swallows it and isRecording = false.
recorderStop(r) ==
  /\ r.op = "stop" /\ r.pc = "message"
  /\ IF injected
     THEN /\ recorderIsRecording' = FALSE
          /\ msgQ' = Append(msgQ, [type |-> "stopped",
                                   action |-> Action("none", 0, 0, 0)])
          /\ recTask' = (recTask \ {r}) \cup {[r EXCEPT !.pc = "response"]}
          /\ lastRec' = NoRec
          /\ UNCHANGED isRecording
     ELSE /\ isRecording' = FALSE
          /\ recTask' = recTask \ {r}
          /\ lastRec' = RecDone("stop", "ok", <<>>, FALSE)
          /\ UNCHANGED <<recorderIsRecording, msgQ>>
  /\ UNCHANGED <<currentRecording, lastSaved, recordingTabId, storage, injected,
                 inputTimeout, fieldValue, opCount, superseded, cleanStart, starts>>

\* The response of the content script arrives: isRecording = false.
stopResumes(r) ==
  /\ r.op = "stop" /\ r.pc = "response"
  /\ msgQ # <<>> /\ Head(msgQ).type = "stopped"
  /\ msgQ' = Tail(msgQ)
  /\ isRecording' = FALSE
  /\ recTask' = recTask \ {r}
  /\ lastRec' = RecDone("stop", "ok", <<>>, FALSE)
  /\ UNCHANGED <<currentRecording, lastSaved, recordingTabId, storage, injected,
                 recorderIsRecording, inputTimeout, fieldValue, opCount, superseded,
                 cleanStart, starts>>

\* The record_action handler without the test of isRecording.
onRecordAction_NoGuard ==
  /\ msgQ # <<>> /\ Head(msgQ).type = "record_action"
  /\ msgQ' = Tail(msgQ)
  /\ currentRecording' = Append(currentRecording, Head(msgQ).action)
  /\ lastRec' = NoRec
  /\ UNCHANGED <<isRecording, lastSaved, recordingTabId, recTask, storage, injected,
                 recorderIsRecording, inputTimeout, fieldValue, opCount, superseded,
                 cleanStart, starts>>

\* chrome.runtime.onMessage, 'record_action': `if (isRecording &&
\* message.action) currentRecording.push(message.action)`.
onRecordAction ==
  /\ msgQ # <<>> /\ Head(msgQ).type = "record_action"
  /\ msgQ' = Tail(msgQ)
  /\ currentRecording' = IF isRecording
                         THEN Append(currentRecording, Head(msgQ).action)
                         ELSE currentRecording
  /\ lastRec' = NoRec
  /\ UNCHANGED <<isRecording, lastSaved, recordingTabId, recTask, storage, injected,
                 recorderIsRecording, inputTimeout, fieldValue, opCount, superseded,
                 cleanStart, starts>>

\* recordings[name] = {name, actions: currentRecording, ...} in the object
\* that chrome.storage.local.get('recordings') returned.
Put(recordings, name, actions) ==
  [n \in (DOMAIN recordings) \cup {name} |->
     IF n = name THEN actions ELSE recordings[n]]

\* saveRecording without the test of the buffer's length.
saveRecording_NoCheck(name) ==
  /\ CanRec("save")
  /\ recTask' = recTask \cup {RecTask("save", "get", name, storage)}
  /\ lastRec' = NoRec
  /\ UNCHANGED <<isRecording, currentRecording, lastSaved, recordingTabId, storage,
                 injected, recorderIsRecording, inputTimeout, fieldValue, msgQ,
                 opCount, superseded, cleanStart, starts>>

\* chrome.runtime.onMessage, 'save_recording': saveRecording(name) throws
\* 'No actions to save' when currentRecording.length === 0, else runs up to
\* `await chrome.storage.local.get('recordings')`, which reads the store as
\* it is when the call is made.
saveRecording(name) ==
  /\ CanRec("save")
  /\ IF Len(currentRecording) = 0
     THEN /\ lastRec' = RecDone("save", "EmptyRecording", name, TRUE)
          /\ UNCHANGED recTask
     ELSE /\ recTask' = recTask \cup {RecTask("save", "get", name, storage)}
          /\ lastRec' = NoRec
  /\ UNCHANGED <<isRecording, currentRecording, lastSaved, recordingTabId, storage,
                 injected, recorderIsRecording, inputTimeout, fieldValue, msgQ,
                 opCount, superseded, cleanStart, starts>>

\* saveRecording that writes a store holding the new recording alone.
saveGot_DropsOthers(r) ==
  /\ r.op = "save" /\ r.pc = "get"
  /\ storage' = Put(NoStorage, r.name, currentRecording)
  /\ recTask' = (recTask \ {r}) \cup {[r EXCEPT !.pc = "set", !.snap = NoStorage]}
  /\ lastRec' = NoRec
  /\ UNCHANGED <<isRecording, currentRecording, lastSaved, recordingTabId, injected,
                 recorderIsRecording, inputTimeout, fieldValue, msgQ, opCount,
                 superseded, cleanStart, starts>>

\* The get answers: recordings = result.recordings || {}, recordings[name] =
\* {name, actions: currentRecording, ...}, and `await
\* chrome.storage.local.set({recordings})` writes the store.
saveGot(r) ==
  /\ r.op = "save" /\ r.pc = "get"
  /\ storage' = Put(r.snap, r.name, currentRecording)
  /\ recTask' = (recTask \ {r}) \cup {[r EXCEPT !.pc = "set", !.snap = NoStorage]}
  /\ lastRec' = NoRec
  /\ UNCHANGED <<isRecording, currentRecording, lastSaved, recordingTabId, injected,
                 recorderIsRecording, inputTimeout, fieldValue, msgQ, opCount,
                 superseded, cleanStart, starts>>

\* The set answers: currentRecording = [], lastSaved = true, recordingTabId
\* = null, and saveRecording returns {success: true, name, actionCount}.
saveSet(r) ==
  /\ r.op = "save" /\ r.pc = "set"
  /\ currentRecording' = <<>>
  /\ lastSaved' = TRUE
  /\ recordingTabId' = 0
  /\ recTask' = recTask \ {r}
  /\ lastRec' = RecDone("save", "ok", r.name, FALSE)
  /\ UNCHANGED <<isRecording, storage, injected, recorderIsRecording, inputTimeout,
                 fieldValue, msgQ, opCount, superseded, cleanStart, starts>>

\* handleMessage, case 'delete_recording': deleteRecording(params.name) runs
\* up to `await chrome.storage.local.get('recordings')`, which reads the
\* store as it is when the call is made.  ws.onmessage does not wait for
\* handleMessage, so the command runs beside the calls of the popup.
deleteRecording(name) ==
  /\ Cardinality({r \in recTask : r.op = "delete"}) < MaxDel
  /\ recTask' = recTask \cup {RecTask("delete", "get", name, storage)}
  /\ lastRec' = NoRec
  /\ UNCHANGED <<isRecording, currentRecording, lastSaved, recordingTabId, storage,
                 injected, recorderIsRecording, inputTimeout, fieldValue, msgQ,
                 opCount, superseded, cleanStart, starts>>

\* The get answers: `if (!recordings[name]) throw new Error('Recording
\* "name" not found')`, else `delete recordings[name]` and `await
\* chrome.storage.local.set({recordings})` writes the store.
deleteGot(r) ==
  /\ r.op = "delete" /\ r.pc = "get"
  /\ IF r.name \notin DOMAIN r.snap
     THEN /\ recTask' = recTask \ {r}
          /\ lastRec' = RecDone("delete", "RecordingNotFound", r.name, FALSE)
          /\ UNCHANGED storage
     ELSE /\ storage' = [n \in (DOMAIN r.snap) \ {r.name} |-> r.snap[n]]
          /\ recTask' = (recTask \ {r}) \cup {[r EXCEPT !.pc = "set", !.snap = NoStorage]}
          /\ lastRec' = NoRec
  /\ UNCHANGED <<isRecording, currentRecording, lastSaved, recordingTabId, injected,
                 recorderIsRecording, inputTimeout, fieldValue, msgQ, opCount,
                 superseded, cleanStart, starts>>

\* The set answers: deleteRecording returns {success: true, deleted: name}.
deleteSet(r) ==
  /\ r.op = "delete" /\ r.pc = "set"
  /\ recTask' = recTask \ {r}
  /\ lastRec' = RecDone("delete", "ok", r.name, FALSE)
  /\ UNCHANGED <<isRecording, currentRecording, lastSaved, recordingTabId, storage,
                 injected, recorderIsRecording, inputTimeout, fieldValue, msgQ,
                 opCount, superseded, cleanStart, starts>>

(***************************************************************************)
(* Server: the recordings directory                                        *)
(***************************************************************************)
\* name.replace(/[^a-zA-Z0-9-_]/g, '_') + '.json'
toFilename(name) ==
  Append([i \in 1..Len(name) |-> IF name[i] \in SafeChars THEN name[i] ELSE "_"],
         ".json")

NoStore == [op |-> "none", res |-> "", name |-> <<>>, rec |-> <<>>, actions |-> <<>>]

StoreDone(op, res, name, rec, actions) ==
  [op |-> op, res |-> res, name |-> name, rec |-> rec, actions |-> actions]

\* The directory after saveRecordingToDisk has written the recordings of the
\* names in N, no two of which share a file.
DiskOf(N) ==
  [f \in {toFilename(n) : n \in N} |->
     [name |-> CHOOSE n \in N : toFilename(n) = f, actions |-> <<>>]]

\* writeFileSync(join(RECORDINGS_DIR, toFilename(name)), JSON.stringify({name,
\* actions: recording.actions || recording, createdAt, url}))
saveRecordingToDisk(files, name, actions) ==
  [f \in (DOMAIN files) \cup {toFilename(name)} |->
     IF f = toFilename(name) THEN [name |-> name, actions |-> actions] ELSE files[f]]

\* The methods that the switch of handleMessage names, as far as the
\* recording tools are concerned.
RecordingMethods == {"list_recordings", "get_recording", "replay_recording",
                     "delete_recording"}

\* browser_get_recording: getRecordingFromDisk(name) returns the content of
\* the file of that name, or throws `Recording "name" not found`.
browserGetRecording(name) ==
  /\ lastStore' = IF toFilename(name) \in DOMAIN disk
                  THEN StoreDone("get", "found", name, disk[toFilename(name)].name,
                                 disk[toFilename(name)].actions)
                  ELSE StoreDone("get", "RecordingNotFound", name, <<>>, <<>>)
  /\ UNCHANGED disk

\* browser_delete_recording: deleteRecordingFromDisk(name) unlinks the file
\* of that name, or throws.
browserDeleteRecording(name) ==
  IF toFilename(name) \in DOMAIN disk
  THEN /\ disk' = [f \in (DOMAIN disk) \ {toFilename(name)} |-> disk[f]]
       /\ lastStore' = StoreDone("delete", "deleted", name,
                                 disk[toFilename(name)].name, <<>>)
  ELSE /\ lastStore' = StoreDone("delete", "RecordingNotFound", name, <<>>, <<>>)
       /\ UNCHANGED disk

\* browser_save_recording: `await sendToExtension('get_current_recording')`,
\* then saveRecordingToDisk(args.name, recording).  The call rejects while no
\* extension is connected, when the session closes or the timer fires first,
\* and when the extension answers {id, error}: handleMessage throws `Unknown
\* method` for a method its switch does not name.
browserSaveRecording(name, fate) ==
  IF fate = "answered" /\ "get_current_recording" \in RecordingMethods
  THEN /\ disk' = saveRecordingToDisk(disk, name, currentRecording)
       /\ lastStore' = StoreDone("save", "saved", name, name, currentRecording)
  ELSE /\ lastStore' = StoreDone("save",
                                 IF fate = "answered" THEN "RemoteError" ELSE fate,
                                 name, <<>>, <<>>)
       /\ UNCHANGED disk

InitStore ==
  /\ disk = [f \in {} |-> <<>>]
  /\ lastStore = NoStore

\* A step of the recorder: no recording tool of the server runs in it.
RecorderStep ==
  /\ disk' = disk
  /\ lastStore' = NoStore
  /\ UNCHANGED <<bridgeVars, reconnectVars, icon, controlVars, replayVars, selectorVars,
                 inboundVars>>

\* A step of a recording tool of the server: the extension does nothing in
\* it.
StoreStep ==
  /\ lastRec' = NoRec
  /\ UNCHANGED <<isRecording, currentRecording, lastSaved, recordingTabId, recTask,
                 storage, injected, recorderIsRecording, inputTimeout, fieldValue,
                 msgQ, opCount, superseded, cleanStart, starts>>
  /\ UNCHANGED <<bridgeVars, reconnectVars, icon, controlVars, replayVars, selectorVars,
                 inboundVars>>

\* The recorder while it captures: the user's operations on the page, the
\* debounce timers, the messages between content script and background, and
\* the start and stop requests of the popup.
NextCapture ==
  \/ (\E type \in {"click", "select", "keypress", "upload"} : userEvent(type)) /\ RecorderStep
  \/ (\E f \in Fields : userEdit(f)) /\ RecorderStep
  \/ (\E f \in Fields : inputTimerFires(f)) /\ RecorderStep
  \/ pageUnloads /\ RecorderStep
  \/ startRecording /\ RecorderStep
  \/ (\E r \in recTask, active \in BOOLEAN : startQueried(r, active)) /\ RecorderStep
  \/ (\E r \in recTask, admitted \in BOOLEAN : startInjected(r, admitted)) /\ RecorderStep
  \/ (\E r \in recTask : recorderStart(r)) /\ RecorderStep
  \/ stopRecording /\ RecorderStep
  \/ (\E r \in recTask : recorderStop(r)) /\ RecorderStep
  \/ (\E r \in recTask : stopResumes(r)) /\ RecorderStep
  \/ onRecordAction /\ RecorderStep

\* The recorder while recordings are saved: clicks are what the user does on
\* the page, the popup starts, stops and saves, and the issuer asks the
\* server for a recording.
NextSave ==
  \/ userEvent("click") /\ RecorderStep
  \/ startRecording /\ RecorderStep
  \/ (\E r \in recTask : startQueried(r, TRUE)) /\ RecorderStep
  \/ (\E r \in recTask : startInjected(r, TRUE)) /\ RecorderStep
  \/ (\E r \in recTask : recorderStart(r)) /\ RecorderStep
  \/ stopRecording /\ RecorderStep
  \/ (\E r \in recTask : recorderStop(r)) /\ RecorderStep
  \/ (\E r \in recTask : stopResumes(r)) /\ RecorderStep
  \/ onRecordAction /\ RecorderStep
  \/ (\E name \in RecNames : saveRecording(name)) /\ RecorderStep
  \/ (\E r \in recTask : saveGot(r)) /\ RecorderStep
  \/ (\E r \in recTask : saveSet(r)) /\ RecorderStep
  \/ (\E name \in RecNames : browserGetRecording(name)) /\ StoreStep

\* The store of the extension while the popup starts, stops and saves and
\* the server deletes recordings.
NextStorage ==
  \/ startRecording /\ RecorderStep
  \/ (\E r \in recTask : startQueried(r, TRUE)) /\ RecorderStep
  \/ (\E r \in recTask : startInjected(r, TRUE)) /\ RecorderStep
  \/ (\E r \in recTask : recorderStart(r)) /\ RecorderStep
  \/ stopRecording /\ RecorderStep
  \/ (\E r \in recTask : recorderStop(r)) /\ RecorderStep
  \/ (\E r \in recTask : stopResumes(r)) /\ RecorderStep
  \/ onRecordAction /\ RecorderStep
  \/ (\E name \in RecNames : saveRecording(name)) /\ RecorderStep
  \/ (\E r \in recTask : saveGot(r)) /\ RecorderStep
  \/ (\E r \in recTask : saveSet(r)) /\ RecorderStep
  \/ (\E name \in RecNames : deleteRecording(name)) /\ RecorderStep
  \/ (\E r \in recTask : deleteGot(r)) /\ RecorderStep
  \/ (\E r \in recTask : deleteSet(r)) /\ RecorderStep

\* The tool handler returns its result to the issuer.
toolReturns ==
  /\ lastStore # NoStore
  /\ lastStore' = NoStore
  /\ UNCHANGED disk

\* The recording tools of the server, one call at a time.
NextStore ==
  \/ (lastStore = NoStore /\ \E name \in Names : browserGetRecording(name)) /\ StoreStep
  \/ (lastStore = NoStore /\ \E name \in Names : browserDeleteRecording(name)) /\ StoreStep
  \/ (lastStore = NoStore /\ \E name \in Names,
                              fate \in {"answered", "NotConnected", "TransportLost",
                                        "Timeout"} :
         browserSaveRecording(name, fate)) /\ StoreStep
  \/ toolReturns /\ StoreStep

(***************************************************************************)
(* Recorder: generateSelector                                              *)
(***************************************************************************)
\* The document is the sequence of its elements in document order: element
\* 1 is document.body, whose parentElement (the html element, which carries
\* no attribute here) is written 0; every other element has an earlier
\* element as parentElement.  An attribute that is absent is "".
Body == 1
Null == 0

TestAttrs == <<"data-testid", "data-cy", "data-test", "data-automation-id">>

NoAttrs == [a \in {TestAttrs[k] : k \in 1..4} |-> ""]

Element(tag, id, attrs, className, name, placeholder, ariaLabel, text) ==
  [tagName |-> tag, id |-> id, attrs |-> attrs, className |-> className,
   name |-> name, placeholder |-> placeholder, ariaLabel |-> ariaLabel,
   textContent |-> text, parentElement |-> Null]

\* The elements documents are built from.  className is the list of the
\* classes of the attribute.
Palette ==
  { Element("div", "", NoAttrs, <<>>, "", "", "", ""),
    Element("div", "x", NoAttrs, <<>>, "", "", "", ""),
    Element("div", "1", NoAttrs, <<>>, "", "", "", ""),
    Element("div", "a:b", NoAttrs, <<>>, "", "", "", ""),
    Element("div", "", [NoAttrs EXCEPT !["data-testid"] = "t"], <<>>, "", "", "", ""),
    Element("div", "", [NoAttrs EXCEPT !["data-cy"] = "t"], <<"hover">>, "", "", "", ""),
    Element("div", "", NoAttrs, <<"c">>, "", "", "", ""),
    Element("div", "", NoAttrs, <<"c", "d">>, "", "", "", ""),
    Element("input", "", NoAttrs, <<>>, "n", "", "", ""),
    Element("input", "", NoAttrs, <<>>, "", "p", "", ""),
    Element("button", "", NoAttrs, <<>>, "", "", "l", "go") }

Bodies ==
  { Element("body", "", NoAttrs, <<>>, "", "", "", ""),
    Element("body", "x", NoAttrs, <<>>, "", "", "", ""),
    Element("body", "", NoAttrs, <<"c">>, "", "", "", "") }

\* The documents with n elements below the body.
RECURSIVE DocsOf(_)
DocsOf(n) ==
  IF n = 0 THEN {<<b>> : b \in Bodies}
  ELSE {Append(d, [e EXCEPT !.parentElement = p]) :
          d \in DocsOf(n - 1), e \in Palette, p \in 1..n}

\* /^\d/ on the values of the palette.
LeadingDigit(s) == s \in {"1"}

\* CSS.escape on the values of the palette: a leading digit becomes its code
\* point escape, a colon is preceded by a backslash, letters are kept.
CSSescape(s) ==
  CASE s = "1" -> "\\31 "
    [] s = "a:b" -> "a\\:b"
    [] OTHER -> s

\* document.querySelectorAll(selector).length, for the set of the elements
\* of the document that the selector matches.
QueryCount(matches) == Cardinality(matches)

\* c.match(/^(hover|active|focus|visited|disabled)/) || c.match(/^\d/); on
\* the classes of the palette a class that begins with one of the words is
\* that word.
StateClass(c) ==
  c \in {"hover", "active", "focus", "visited", "disabled"} \/ LeadingDigit(c)

\* className.trim().split(/\s+/).filter(...)
Classes(e) == SelectSeq(e.className, LAMBDA c : c # "" /\ ~StateClass(c))

HasClass(e, c) == \E k \in DOMAIN e.className : e.className[k] = c

\* Strategy 1: the id, unless it begins with a digit or contains a colon.
\* "" stands for "no candidate was returned".
ByID(d, el) ==
  LET id == d[el].id
  IN IF id # "" /\ ~LeadingDigit(id) /\ id # "a:b"
        /\ QueryCount({i \in DOMAIN d : d[i].id = id}) = 1
     THEN "#" \o CSSescape(id)
     ELSE ""

\* Strategy 2: the test attributes from the k-th on, in the order of the
\* list.
RECURSIVE ByTestAttr(_, _, _)
ByTestAttr(d, el, k) ==
  IF k > Len(TestAttrs) THEN ""
  ELSE LET attr == TestAttrs[k]
           value == d[el].attrs[attr]
       IN IF value # "" /\ QueryCount({i \in DOMAIN d : d[i].attrs[attr] = value}) = 1
          THEN "[" \o attr \o "=\"" \o CSSescape(value) \o "\"]"
          ELSE ByTestAttr(d, el, k + 1)

\* Strategy 3, first part: the first class from the k-th on that one
\* element only carries.
RECURSIVE BySingleClass(_, _, _)
BySingleClass(d, classes, k) ==
  IF k > Len(classes) THEN ""
  ELSE IF QueryCount({i \in DOMAIN d : HasClass(d[i], classes[k])}) = 1
       THEN "." \o CSSescape(classes[k])
       ELSE BySingleClass(d, classes, k + 1)

\* classes.map(c => `.${CSS.escape(c)}`).join('')
RECURSIVE ClassSelector(_)
ClassSelector(classes) ==
  IF classes = <<>> THEN ""
  ELSE "." \o CSSescape(Head(classes)) \o ClassSelector(Tail(classes))

\* Strategy 3: a unique class, or the combination of the first three.
ByClass(d, el) ==
  LET classes == Classes(d[el])
      first == SubSeq(classes, 1, IF Len(classes) < 3 THEN Len(classes) ELSE 3)
  IN IF classes = <<>> THEN ""
     ELSE IF BySingleClass(d, classes, 1) # "" THEN BySingleClass(d, classes, 1)
     ELSE IF QueryCount({i \in DOMAIN d : \A k \in DOMAIN first : HasClass(d[i], first[k])}) = 1
          THEN ClassSelector(first)
          ELSE ""

\* Strategy 4: name or placeholder of an input, aria-label of a button or
\* link that has text.
ByTagAttr(d, el) ==
  LET e0 == d[el]
      tag == e0.tagName
  IN IF tag = "input" /\ e0.name # ""
        /\ QueryCount({i \in DOMAIN d : d[i].tagName = "input" /\ d[i].name = e0.name}) = 1
     THEN "input[name=\"" \o CSSescape(e0.name) \o "\"]"
     ELSE IF tag = "input" /\ e0.placeholder # ""
        /\ QueryCount({i \in DOMAIN d : d[i].tagName = "input"
                                      /\ d[i].placeholder = e0.placeholder}) = 1
     THEN "input[placeholder=\"" \o CSSescape(e0.placeholder) \o "\"]"
     ELSE IF tag \in {"button", "a"} /\ e0.textContent # "" /\ e0.ariaLabel # ""
        /\ QueryCount({i \in DOMAIN d : d[i].tagName = tag
                                      /\ d[i].ariaLabel = e0.ariaLabel}) = 1
     THEN tag \o "[aria-label=\"" \o CSSescape(e0.ariaLabel) \o "\"]"
     ELSE ""

\* The path of at most MaxPath steps from the element towards the body.
MaxPath == 5

\* Strategy 5: the loop `while (current && current !== document.body &&
\* path.length < 5)`; siblings is Array.from(parent.children).filter(s =>
\* s.tagName === current.tagName), in document order.
RECURSIVE BuildPath(_, _, _)
BuildPath(d, current, path) ==
  IF current = Null \/ current = Body \/ Len(path) >= MaxPath THEN path
  ELSE IF d[current].id # "" /\ ~LeadingDigit(d[current].id)
       THEN <<"#" \o CSSescape(d[current].id)>> \o path
       ELSE LET parent == d[current].parentElement
                siblings ==
                  SelectSeq([i \in DOMAIN d |-> i],
                            LAMBDA i : /\ d[i].parentElement = d[current].parentElement
                                       /\ d[i].tagName = d[current].tagName)
                sel == IF parent # Null /\ Len(siblings) > 1
                       THEN d[current].tagName \o ":nth-child("
                              \o ToString(CHOOSE k \in DOMAIN siblings :
                                            siblings[k] = current) \o ")"
                       ELSE d[current].tagName
            IN BuildPath(d, parent, <<sel>> \o path)

\* path.join(' > ')
RECURSIVE Join(_)
Join(path) ==
  IF path = <<>> THEN ""
  ELSE IF Len(path) = 1 THEN path[1]
  ELSE path[1] \o " > " \o Join(Tail(path))

generateSelector(d, el) ==
  IF ByID(d, el) # "" THEN ByID(d, el)
  ELSE IF ByTestAttr(d, el, 1) # "" THEN ByTestAttr(d, el, 1)
  ELSE IF ByClass(d, el) # "" THEN ByClass(d, el)
  ELSE IF ByTagAttr(d, el) # "" THEN ByTagAttr(d, el)
  ELSE Join(BuildPath(d, el, <<>>))

\* What the browser matches.  The position of an element among all the
\* children of its parent, which is what :nth-child counts.
ChildIndex(d, i) ==
  Cardinality({j \in DOMAIN d : j <= i /\ d[j].parentElement = d[i].parentElement})

\* The compound selectors, of the forms that generateSelector writes, that
\* element i matches.  The body is the second child of the html element.
CompoundsOf(d, i) ==
  LET e == d[i]
      tag == e.tagName
      classes == {e.className[k] : k \in DOMAIN e.className}
  IN {tag}
     \cup (IF i # Body THEN {tag \o ":nth-child(" \o ToString(ChildIndex(d, i)) \o ")"}
                      ELSE {})
     \cup (IF e.id # "" THEN {"#" \o CSSescape(e.id)} ELSE {})
     \cup {"[" \o TestAttrs[k] \o "=\"" \o CSSescape(e.attrs[TestAttrs[k]]) \o "\"]" :
            k \in {n \in 1..Len(TestAttrs) : e.attrs[TestAttrs[n]] # ""}}
     \cup {"." \o CSSescape(c) : c \in classes}
     \cup {"." \o CSSescape(c1) \o "." \o CSSescape(c2) : c1, c2 \in classes}
     \cup (IF tag = "input" /\ e.name # ""
           THEN {"input[name=\"" \o CSSescape(e.name) \o "\"]"} ELSE {})
     \cup (IF tag = "input" /\ e.placeholder # ""
           THEN {"input[placeholder=\"" \o CSSescape(e.placeholder) \o "\"]"} ELSE {})
     \cup (IF e.ariaLabel # ""
           THEN {tag \o "[aria-label=\"" \o CSSescape(e.ariaLabel) \o "\"]"} ELSE {})

\* The selectors of at most k compounds joined by the child combinator that
\* element i matches: the last compound matches i, the one before it the
\* parent of i, and so on.
RECURSIVE SelectorsOf(_, _, _)
SelectorsOf(d, i, k) ==
  IF k = 0 \/ i = Null THEN {}
  ELSE CompoundsOf(d, i)
       \cup {p \o " > " \o c : p \in SelectorsOf(d, d[i].parentElement, k - 1),
                                c \in CompoundsOf(d, i)}

\* document.querySelectorAll(sel) for a selector of at most MaxPath compounds;
\* the empty string is not a selector and matches nothing.
querySelectorAll(d, sel) == {i \in DOMAIN d : sel \in SelectorsOf(d, i, MaxPath)}

\* A blank page: a body without attributes, no selector generated yet.
InitSelector ==
  /\ doc = <<Element("body", "", NoAttrs, <<>>, "", "", "", "")>>
  /\ target = Null
  /\ selector = ""

\* handleClick, handleInput or handleKeydown of an event whose target is el:
\* const selector = generateSelector(el).
selectorGenerated(el) ==
  /\ target' = el
  /\ selector' = generateSelector(doc, el)
  /\ UNCHANGED doc

NextSelector ==
  \E el \in DOMAIN doc :
    /\ selectorGenerated(el)
    /\ UNCHANGED <<bridgeVars, reconnectVars, icon, controlVars, replayVars,
                   recorderVars, storeVars, inboundVars>>

InitCapture == InitRecorder /\ InitStore /\ InitSelector /\ InitInbound

(***************************************************************************)
(* Specifications                                                          *)
(***************************************************************************)
Init ==
  /\ InitBridge /\ InitReconnect /\ InitControl(FALSE) /\ InitReplay
  /\ InitCapture

SpecBridge == Init /\ [][NextBridge]_vars

\* Node runs every armed timer: the 30 s callback of a request is not
\* postponed forever.
FairBridge ==
  /\ SpecBridge
  /\ \A id \in Ids :
       WF_vars(timeoutCallback(id) /\ UNCHANGED <<reconnectVars, icon, controlVars, replayVars, captureVars>>)

SpecReconnect == Init /\ [][NextReconnect]_vars

\* The browser runs the 3 s timer, and an attempt against an endpoint that
\* accepts connections is opened.
FairReconnect ==
  /\ SpecReconnect
  /\ WF_vars(reconnectTimerFires /\ UNCHANGED <<bridgeVars, controlVars, replayVars, captureVars>>)
  /\ \A s \in CliSocks : WF_vars(wsOnOpen(s) /\ UNCHANGED <<bridgeVars, controlVars, replayVars, captureVars>>)

\* The stored flag may be either value when the service worker starts.
InitLoaded ==
  /\ InitBridge
  /\ InitReconnect
  /\ \E stored \in BOOLEAN : InitControl(stored)
  /\ InitReplay
  /\ InitCapture

SpecControl == InitLoaded /\ [][NextControl]_vars

SpecParallel == InitLoaded /\ [][NextParallel]_vars

SpecInbound == Init /\ [][NextInbound]_vars

SpecSessions == Init /\ [][NextSessions]_vars

SpecReplay == Init /\ [][NextReplay]_vars

\* Node runs the timers (the 30 s timeout of a pending request, the settle
\* delay) and the continuations of settled promises.
FairReplay ==
  /\ SpecReplay
  /\ \A id \in Ids :
       WF_vars(id \in pendingRequests /\ timeoutCallback(id)
                 /\ UNCHANGED <<reconnectVars, icon, controlVars, replayVars, captureVars>>)
  /\ WF_vars(replayResumes /\ UNCHANGED <<reconnectVars, icon, controlVars, captureVars>>)
  /\ WF_vars(settleTimerFires /\ UNCHANGED <<reconnectVars, icon, controlVars, captureVars>>)

SpecCapture == Init /\ [][NextCapture]_vars

SpecSave == Init /\ [][NextSave]_vars

SpecStorage == Init /\ [][NextStorage]_vars

\* The recordings directory holds the files of up to two names when the
\* server starts.
InitDisks ==
  /\ InitBridge /\ InitReconnect /\ InitControl(FALSE) /\ InitReplay
  /\ InitRecorder /\ InitSelector /\ InitInbound
  /\ lastStore = NoStore
  /\ \E N \in {{}} \cup {{n1, n2} : n1, n2 \in Names} :
       /\ \A n1, n2 \in N : toFilename(n1) = toFilename(n2) => n1 = n2
       /\ disk = DiskOf(N)

SpecStore == InitDisks /\ [][NextStore]_vars

\* The page shows any document of up to MaxNodes elements below the body.
InitDocs ==
  /\ InitBridge /\ InitReconnect /\ InitControl(FALSE) /\ InitReplay
  /\ InitRecorder /\ InitStore /\ InitInbound
  /\ \E n \in 0..MaxNodes : doc \in DocsOf(n)
  /\ target = Null
  /\ selector = ""

SpecSelector == InitDocs /\ [][NextSelector]_vars

(***************************************************************************)
(* Properties of the bridge (SpecBridge, FairBridge)                       *)
(***************************************************************************)
Registered(i) == i <= requestId
Active(s) == srvSock[s] \in {"open", "errored"}
NoSession == \A s \in Socks : ~Active(s)
TimeoutOutcome == [kind |-> "Timeout", msg |-> "Request timeout"]
LostOutcome == [kind |-> "TransportLost", msg |-> "Extension disconnected"]

\* C1: under every interleaving of Response, duplicate Responses, the timeout
\* and a transport close, resolve/reject is called at most once for a request
\* and its entry leaves the Pending Request Table exactly once: never twice,
\* and once as soon as the request is no longer pending.
C1_SettledAndRemovedOnce ==
  \A i \in Ids :
    /\ settles[i] <= 1
    /\ removes[i] <= 1
    /\ (i \in pendingRequests) => (settles[i] = 0 /\ removes[i] = 0)
    /\ (Registered(i) /\ i \notin pendingRequests) => (settles[i] = 1 /\ removes[i] = 1)

\* A request that got its Response, then a duplicate after the timer had
\* fired, and whose session closed afterwards.
C1_Witness ==
  \E i \in Ids :
    /\ outcome[i].kind = "result"
    /\ preResp[i] /\ lateResp[i]
    /\ i \notin timers
    /\ srvSock[sentOn[i]] = "closed"

\* C2: every registered request eventually leaves the table and its caller
\* eventually has an outcome, also when no Response arrives and no session
\* closes (checked under FairBridge: armed timers fire).
C2_EventuallySettled ==
  \A i \in Ids :
    (i \in pendingRequests) ~> (i \notin pendingRequests /\ outcome[i].kind \in {"result", "RemoteError", "Timeout", "TransportLost"})

\* A request that timed out although no Response came and its session is
\* still open.
C2_Witness ==
  \E i \in Ids :
    /\ outcome[i] = TimeoutOutcome
    /\ ~preResp[i]
    /\ srvSock[sentOn[i]] = "open"

\* C3: a sendToExtension call made while no session is active is rejected as
\* NotConnected at once: it consumes no request id, registers no entry, arms no
\* timeout (so it can never end as Timeout) and writes no Request.
C3_NotConnectedImmediate ==
  [][(NoSession /\ (requestId' # requestId \/ ncCalls' # ncCalls))
       => /\ ncCalls' = ncCalls + 1
          /\ requestId' = requestId
          /\ pendingRequests' = pendingRequests
          /\ timers' = timers
          /\ sentOn' = sentOn
          /\ outcome' = outcome]_vars

\* A call was rejected as not connected after the only session had closed.
C3_Witness ==
  /\ ncCalls >= 1
  /\ srvSock[1] = "closed"
  /\ NoSession

\* C4 (as written): whenever the timeout of a request has fired and no Response
\* for its id had arrived before, the call has failed with Timeout.
C4_Original ==
  \A i \in Ids :
    (Registered(i) /\ i \notin timers /\ ~preResp[i])
      => (outcome[i] = TimeoutOutcome /\ i \notin pendingRequests)

\* C4 (amended): if neither a Response for the id arrived nor a transport
\* close rejected the request before its timeout fires, the call fails with
\* Timeout and the entry is removed; from then on the outcome and the entry
\* never change again, and a Response for that id arriving afterwards changes
\* neither any caller's outcome nor the table.
C4_TimeoutThenIgnored ==
  [][\A i \in Ids :
       /\ (i \in timers /\ i \notin timers' /\ ~preResp[i] /\ outcome[i] # LostOutcome)
            => (outcome'[i] = TimeoutOutcome /\ i \notin pendingRequests')
       /\ (outcome[i].kind = "Timeout")
            => /\ outcome'[i] = outcome[i]
               /\ settles'[i] = settles[i]
               /\ removes'[i] = removes[i]
               /\ i \notin pendingRequests'
       /\ (outcome[i].kind = "Timeout" /\ ~lateResp[i] /\ lateResp'[i])
            => (outcome' = outcome /\ pendingRequests' = pendingRequests)]_vars

\* A request timed out and a Response for its id arrived after that.
C4_Witness ==
  \E i \in Ids : outcome[i] = TimeoutOutcome /\ ~preResp[i] /\ lateResp[i]

C6_ErrorFieldRejects ==
  \A i \in Ids :
    /\ (matched[i] \notin {"<none>", "<absent>"})
         => outcome[i] = [kind |-> "RemoteError", msg |-> matched[i]]
    /\ (outcome[i].kind = "result") => matched[i] = "<absent>"

\* The session accepted last, if any.
LatestSession == Cardinality({s \in Socks : srvSock[s] # "none"})

\* C7: a newly established session replaces the prior one: while the session
\* accepted last is active it is the one requests are sent on, and a request
\* is rejected with TransportLost only by the close of the session it was
\* sent on.
C7_NewSessionReplaces ==
  /\ (LatestSession # 0 /\ Active(LatestSession)) => extensionSocket = LatestSession
  /\ \A i \in Ids :
       outcome[i].kind = "TransportLost" => srvSock[sentOn[i]] = "closed"

(***************************************************************************)
(* Properties of the extension's connection (SpecReconnect, FairReconnect) *)
(***************************************************************************)
ExecConnected == ws # 0 /\ cliSock[ws] = "OPEN"

\* C8: every loss of a session (and every refused attempt) is followed by a
\* new connection attempt, with no limit on their number: if the endpoint is
\* eventually available for good, the extension ends up connected for good.
C8_ReconnectsForever == (<>[]serverUp) => (<>[]ExecConnected)

\* The extension is connected again after a session had been lost.
C8_Witness == everLost /\ ExecConnected /\ serverUp /\ reconnectTimers = 0

(***************************************************************************)
(* Properties of the control state (SpecControl)                           *)
(***************************************************************************)
\* C9: in every reachable state, sessionEnabled false implies connectedTabId
\* unset, also at the awaits inside toggleSession and while a connect_tab that
\* passed the control check awaits the tab lookup.
C9_DisabledImpliesNoTarget == ~sessionEnabled => connectedTabId = 0

\* C10: once a toggle that disabled control while a tab was targeted has
\* completed, the target is unset, and a command that requires a target and
\* runs before any further toggle fails with NoTarget.
C10_DisabledThenNoTarget ==
  /\ offDone => connectedTabId = 0
  /\ (lastResult.op = "command" /\ lastResult.off) => lastResult.res = "NoTarget"

\* Operations that require a target.
TargetOps == {"command", "get_page_info", "upload_file", "screenshot"}

\* C11: an operation that requires control and is called while sessionEnabled
\* is false does not succeed: connect_tab fails with ControlDisabled, list_tabs
\* exposes no surface, tab_new and tab_close do not succeed.
C11_DisabledNothingSucceeds ==
  (lastResult.op \in {"list_tabs", "connect_tab", "tab_new", "tab_close"}
     /\ lastResult.dis)
    => /\ lastResult.res \notin {"ok", "surfaces"}
       /\ lastResult.op = "connect_tab" => lastResult.res = "ControlDisabled"

\* C12: an operation that requires a target and runs while connectedTabId is
\* unset fails with NoTarget, makes no host call and changes nothing of the
\* control state, the tabs or the suspended operations.
C12_NoTargetFails ==
  [][(lastResult'.op \in TargetOps /\ connectedTabId = 0)
       => /\ lastResult'.res = "NoTarget"
          /\ ~lastResult'.host
          /\ UNCHANGED <<sessionEnabled, connectedTabId, storedSession, tabs,
                         nextTabId, removedQ, task>>]_vars

\* get_page_info failed with NoTarget while control was enabled and a tab
\* existed.
C12_Witness ==
  /\ lastResult.op = "get_page_info"
  /\ lastResult.res = "NoTarget"
  /\ ~lastResult.host
  /\ sessionEnabled
  /\ connectedTabId = 0
  /\ tabs # {}

\* C13: an operation that requires a target and runs while connectedTabId
\* names a tab that no longer exists fails with TargetNotFound, and a
\* connect_tab whose tab lookup found no tab fails with TargetNotFound and
\* leaves connectedTabId as it was.
C13_GoneTargetNotFound ==
  [][/\ (lastResult'.op \in TargetOps /\ connectedTabId # 0 /\ connectedTabId \notin tabs)
          => lastResult'.res = "TargetNotFound"
     /\ \A r \in BagToSet(task) :
          (connectTabResumes(r) /\ ~r.found)
            => (lastResult'.res = "TargetNotFound" /\ connectedTabId' = connectedTabId)]_vars

\* C14: connectedTabId holds one tab id or none; it takes a new id only in
\* the step in which a connect_tab to that id succeeds, and it becomes unset
\* only in a disconnect_tab, while control is disabled, or when the tab it
\* named has been destroyed.
C14_SingleTarget ==
  [][/\ connectedTabId' \in {0} \cup TabIds
     /\ (connectedTabId' # connectedTabId /\ connectedTabId' # 0)
          => /\ lastResult'.op = "connect_tab"
             /\ lastResult'.res = "ok"
             /\ lastResult'.tab = connectedTabId'
     /\ (connectedTabId' # connectedTabId /\ connectedTabId' = 0)
          => \/ lastResult'.op = "disconnect_tab"
             \/ ~sessionEnabled
             \/ connectedTabId \notin tabs]_vars

\* A connect_tab to the second tab succeeded and that tab is the target,
\* while the first tab still exists.
C14_Witness ==
  /\ lastResult.op = "connect_tab"
  /\ lastResult.res = "ok"
  /\ lastResult.tab = 2
  /\ connectedTabId = 2
  /\ tabs = {1, 2}

\* C15: a set connectedTabId names a tab that exists or whose onRemoved
\* event is still to be delivered, also when the tab is destroyed while a
\* connect_tab to it awaits the tab lookup.
C15_TargetExists == connectedTabId # 0 => connectedTabId \in (tabs \cup removedQ)

(***************************************************************************)
(* Properties of the replay (SpecReplay, FairReplay)                       *)
(***************************************************************************)
\* C16: a replay that has returned holds one entry per action of the
\* recording, actionsExecuted is that number, and entry k names action k,
\* whichever actions failed.
C16_OneEntryPerAction ==
  replay.pc = "done"
    => /\ Len(results) = Len(recording)
       /\ replay.executed = Len(recording)
       /\ \A k \in 1..Len(recording) : results[k].action = recording[k].type

\* A replay of two actions has returned: the first action failed and the
\* second succeeded.
C16_Witness ==
  /\ replay.pc = "done"
  /\ Len(recording) = 2
  /\ replay.executed = 2
  /\ ~results[1].success
  /\ results[2].success /\ results[2].result = "done"

\* C17: the entry of an action whose execution failed because its selector
\* matched no element has success = false.
C17_FailedActionReported ==
  \A k \in 1..Len(results) :
    results[k].result = "Element not found" => ~results[k].success

\* C18: at most one request of the replay is pending; a request is pending
\* only for the action of the current iteration, whose predecessors all
\* have their entries and whose successors have none; entries are pushed in
\* the order of the recording.
C18_OneAtATime ==
  /\ Cardinality(pendingRequests) <= 1
  /\ \A id \in 1..requestId :
       outcome[id].kind = "pending" => (replay.pc = "await" /\ replay.id = id)
  /\ replay.pc \in {"await", "settle"}
       => (Len(results) = replay.i - 1 /\ replay.id = requestId)
  /\ Len(results) <= Len(recording)
  /\ \A k \in 1..Len(results) : results[k].action = recording[k].type

\* The request of the second action is pending, and the entry of the first,
\* which was sent and succeeded, has been pushed.
C18_Witness ==
  /\ replay.pc = "await"
  /\ replay.i = 2
  /\ replay.id = 2
  /\ 2 \in pendingRequests
  /\ Len(results) = 1
  /\ results[1].success /\ results[1].result = "done"

\* C19: an entry of a command that succeeded was pushed after the delay of
\* its type (navigate 1000 ms, click 300 ms, type, select and keypress
\* 100 ms, upload none); an entry of a command that failed, or of an action
\* that was skipped, was pushed with no delay; and while the delay runs no
\* request of the replay is pending and the next iteration has not begun.
C19_SettleDelays ==
  /\ \A k \in 1..Len(results) :
       LET e == results[k]
       IN  IF e.success /\ e.result # "skipped"
           THEN e.waited = CASE e.action = "navigate" -> 1000
                             [] e.action = "click" -> 300
                             [] e.action \in {"type", "select", "keypress"} -> 100
                             [] e.action = "upload" -> 0
           ELSE e.waited = 0
  /\ replay.pc = "settle"
       => /\ pendingRequests = {}
          /\ Len(results) = replay.i - 1
          /\ outcome[replay.id].kind = "result"

\* A navigate succeeded and its entry waited 1000 ms; the command after it
\* was rejected and its entry was pushed at once.
C19_Witness ==
  /\ Len(results) = 2
  /\ results[1].action = "navigate" /\ results[1].success /\ results[1].waited = 1000
  /\ ~results[2].success /\ results[2].error = "RemoteError" /\ results[2].waited = 0

\* C20: a replay that has begun returns, with one entry per action, whatever
\* errors its commands met (checked under FairReplay: timers fire and settled
\* promises resume).
C20_ReplayTerminates ==
  (replay.pc \in {"await", "settle"})
    ~> (replay.pc = "done" /\ replay.executed = Len(recording))

\* A replay has returned whose first command timed out and whose second was
\* rejected by the close of the session.
C20_Witness ==
  /\ replay.pc = "done"
  /\ Len(results) = 2
  /\ results[1].error = "Timeout"
  /\ results[2].error = "TransportLost"

C22_EmptySaveFails ==
  [][Len(currentRecording) = 0
       => /\ \A r \in recTask' \ recTask : r.op # "save"
          /\ lastRec'.op = "save"
               => /\ lastRec'.res = "EmptyRecording"
                  /\ storage' = storage
                  /\ disk' = disk
                  /\ UNCHANGED <<isRecording, currentRecording, lastSaved,
                                 recordingTabId, recTask>>]_vars

\* A save with an empty buffer has failed under a name that holds a
\* recording, which is still there.
C22_Witness ==
  /\ lastRec.op = "save"
  /\ lastRec.res = "EmptyRecording"
  /\ lastRec.name \in DOMAIN storage
  /\ Len(storage[lastRec.name]) > 0
  /\ currentRecording = <<>>

\* C23: browser_get_recording of a name under which the recorder has saved
\* a recording returns the actions that were saved.
C23_SavedIsReturned ==
  (lastStore.op = "get" /\ lastStore.name \in DOMAIN storage /\ recTask = {})
    => (lastStore.res = "found" /\ lastStore.actions = storage[lastStore.name])

C25_KeyCollisionFree ==
  lastStore.res \in {"found", "deleted"} => lastStore.rec = lastStore.name

\* C26: startRecording sets isRecording and empties the buffer; and the
\* buffer of a recording that was started while the recorder was idle begins
\* with the navigate action of the page.
C26_StartClearsThenNavigate ==
  /\ [](cleanStart /\ Len(currentRecording) > 0
          => /\ currentRecording[1] = Action("navigate", 0, 0, 0)
             /\ \A k \in 2..Len(currentRecording) : currentRecording[k].type # "navigate")
  /\ [][\A r \in recTask :
          (r.op = "start" /\ r.pc = "query" /\ r \notin recTask'
             /\ lastRec'.op = "none")
            => (isRecording' /\ currentRecording' = <<>>)]_vars

\* The second recording, started after the first was stopped, holds the
\* navigate action and the click made during it; the click of the first
\* recording is gone.
C26_Witness ==
  /\ starts = 2
  /\ cleanStart
  /\ isRecording
  /\ currentRecording = <<Action("navigate", 0, 0, 0), Action("click", 0, 0, 2)>>

C28_CaptureOrder ==
  \A i, j \in 1..Len(currentRecording) :
    (i < j /\ currentRecording[i].op > 0 /\ currentRecording[j].op > 0)
      => currentRecording[i].op < currentRecording[j].op

\* The type actions that the content script has sent and that are in the
\* queue or in the buffer.
Typed ==
  SelectSeq([k \in 1..Len(msgQ) |-> msgQ[k].action], LAMBDA a : a.type = "type")
    \o SelectSeq(currentRecording, LAMBDA a : a.type = "type")

C30_SelectorNonEmpty == target # Null => selector # ""

\* C31: every locator that generateSelector returns, one produced by the
\* positional path included, matches exactly one element of the current
\* document, and that element is the target.
C31_SelectorMatchesTarget ==
  target # Null => querySelectorAll(doc, selector) = {target}

\* The candidates of strategies 1 to 4 for element el, in the order in which
\* the strategies try them.
Candidates(d, el) ==
  LET e == d[el]
      classes == Classes(e)
      first == SubSeq(classes, 1, IF Len(classes) < 3 THEN Len(classes) ELSE 3)
  IN <<"#" \o CSSescape(e.id)>>
     \o [k \in 1..Len(TestAttrs) |->
           "[" \o TestAttrs[k] \o "=\"" \o CSSescape(e.attrs[TestAttrs[k]]) \o "\"]"]
     \o [k \in 1..Len(classes) |-> "." \o CSSescape(classes[k])]
     \o <<ClassSelector(first)>>
     \o (IF e.tagName = "input"
         THEN <<"input[name=\"" \o CSSescape(e.name) \o "\"]",
                "input[placeholder=\"" \o CSSescape(e.placeholder) \o "\"]">>
         ELSE <<>>)
     \o (IF e.tagName \in {"button", "a"} /\ e.textContent # ""
         THEN <<e.tagName \o "[aria-label=\"" \o CSSescape(e.ariaLabel) \o "\"]">>
         ELSE <<>>)

\* The candidates of element el that the browser matches to el alone; the
\* candidate of an unstable id is none of them.
UniqueCandidates(d, el) ==
  {k \in DOMAIN Candidates(d, el) :
     /\ querySelectorAll(d, Candidates(d, el)[k]) = {el}
     /\ ~(k = 1 /\ d[el].id \in {"1", "a:b"})}

\* C32: generateSelector returns the candidate of the first strategy, in the
\* order id, test attribute, class, tag-qualified attribute, positional path,
\* whose candidate matches exactly one element, never the candidate of a
\* later strategy when an earlier one has a unique candidate; and an id that
\* begins with a digit or contains a colon is never the identifier that the
\* locator is made of.
C32_FirstUniqueStrategyWins ==
  target # Null =>
    LET unique == UniqueCandidates(doc, target)
        path == BuildPath(doc, target, <<>>)
    IN /\ unique # {} =>
            selector = Candidates(doc, target)[CHOOSE k \in unique : \A j \in unique : k <= j]
       /\ unique = {} => selector = Join(path)
       /\ \A id \in {"1", "a:b"} :
            /\ selector # "#" \o CSSescape(id)
            /\ ~(selector = Join(path) /\ path # <<>> /\ path[1] = "#" \o CSSescape(id))


(***************************************************************************)
(* Properties of commands that name a tab (SpecParallel)                    *)
(***************************************************************************)
\* C33: a tab-operating command that carries a tabId operates on that tab,
\* and one that omits it operates on the connected tab, so that a command of
\* an issuer that names its own tab is never executed against the tab that
\* another issuer connected.
C33_CommandActsOnItsTab ==
  (lastResult.op = "tool" /\ lastResult.res = "acted") =>
    lastResult.on = (IF lastResult.tab # 0 THEN lastResult.tab ELSE connectedTabId)


(***************************************************************************)
(* Properties of incoming messages (SpecInbound)                           *)
(***************************************************************************)
\* C34: the handling of a keepalive, of an extension_ready notice, of a
\* Response whose id has no pending entry and of unparseable text leaves the
\* Pending Request Table unchanged and settles no promise; a keepalive is not
\* treated as a Response, also when it carries the id of a pending request.
C34_ForeignMessagesChangeNothing ==
  [][(/\ received' # NoMessage
      /\ ~(received'.type = "response" /\ received'.id \in pendingRequests))
       => UNCHANGED <<pendingRequests, settles, removes, outcome>>]_vars

\* A keepalive that carried the id of a pending request was handled, and the
\* request is still pending.
C34_Witness ==
  /\ received.type = "keepalive"
  /\ received.id \in pendingRequests
  /\ outcome[received.id] = Pending


(***************************************************************************)
(* Properties of request ids over sessions (SpecSessions)                  *)
(***************************************************************************)
\* C35: request ids are strictly increasing over all the requests the issuer
\* sends and no id is used twice, also across transport sessions: the counter
\* never decreases, a request gets an id that no request had before, and the
\* handling of a Response changes no request but the one whose id it carries,
\* so that a Response to a request of an earlier session that is delivered
\* after a reconnect settles no request of the later session.
C35_IdsNeverReused ==
  [][/\ requestId' >= requestId
     /\ \A i \in Ids :
          /\ (i \in pendingRequests' /\ i \notin pendingRequests) =>
                (i = requestId + 1 /\ requestId' = i /\ sentOn[i] = 0
                   /\ outcome[i] = NoOutcome)
          /\ (received' # NoMessage /\ sentOn[received'.id] # sentOn[i]) =>
                (outcome'[i] = outcome[i] /\ settles'[i] = settles[i]
                   /\ (i \in pendingRequests' <=> i \in pendingRequests))]_vars

\* A Response that carries the id of a request of the first session was
\* handled while a request of the second session was pending.
C35_Witness ==
  /\ received.type = "response"
  /\ sentOn[received.id] = 1
  /\ \E j \in pendingRequests : sentOn[j] = 2 /\ extensionSocket = 2


(***************************************************************************)
(* Further properties of the recordings directory (SpecStore)              *)
(***************************************************************************)
\* C36: the persisted recordings and their contents are changed only by a
\* save and by a delete that succeed; get, list and every other step leave
\* them unchanged, and the delete of a name under which no recording is
\* stored fails with RecordingNotFound and leaves them unchanged.
C36_OnlySaveAndDeleteChange ==
  [][/\ disk' # disk =>
          \/ lastStore'.op = "save" /\ lastStore'.res = "saved"
          \/ lastStore'.op = "delete" /\ lastStore'.res = "deleted"
     /\ (lastStore'.op = "delete" /\ lastStore'.name \notin {disk[f].name : f \in DOMAIN disk}) =>
          (lastStore'.res = "RecordingNotFound" /\ disk' = disk)]_vars


(***************************************************************************)
(* Further properties of the extension's connection (SpecReconnect)        *)
(***************************************************************************)
\* C37: the extension has at most one WebSocket that is connecting or open
\* and at most one pending reconnect timer at any time, whatever the order of
\* the connect() at load, the connect() of onStartup and the reconnects that
\* onclose schedules; and the close of a socket that is not the current one
\* neither clears `ws` nor stops the keepalive timer.
C37_OneSocketOneTimer ==
  /\ [](/\ Cardinality({s \in CliSocks : cliSock[s] \in {"CONNECTING", "OPEN"}}) <= 1
        /\ reconnectTimers <= 1)
  /\ [][\A s \in CliSocks :
          (/\ cliSock[s] \in {"CONNECTING", "OPEN"}
           /\ cliSock'[s] \notin {"CONNECTING", "OPEN"}
           /\ ws # 0 /\ ws # s) =>
            (ws' = ws /\ keepAliveInterval' = keepAliveInterval)]_vars


(***************************************************************************)
(* Further properties of the recorder (SpecCapture)                        *)
(***************************************************************************)
\* C38: a startRecording that fails leaves the recorder as it was before the
\* call.  The step in which the call fails with 'No active tab' leaves
\* isRecording, the buffer, lastSaved and recordingTabId unchanged; and a
\* call that was made while the recorder was idle and fails because the
\* script cannot be injected or messaged ends with isRecording false.
C38_FailedStartChangesNothing ==
  [][\A r \in recTask :
       (r.op = "start" /\ r \notin recTask' /\ lastRec'.op = "start"
          /\ lastRec'.res # "ok")
         => /\ UNCHANGED <<isRecording, currentRecording, lastSaved, recordingTabId>>
            /\ (r.pc # "query" /\ cleanStart) => ~isRecording']_vars

\* C39: when stopRecording has returned from the one recording that was made,
\* the buffer it retains holds, for every text field that the user edited
\* during the recording, a type action with the final value of the field,
\* whether the last edit was made more or less than 500 ms before the stop.
C39_EveryEditIsRecorded ==
  (starts = 1 /\ cleanStart /\ ~isRecording
     /\ lastRec.op = "stop" /\ lastRec.res = "ok")
    => \A f \in Fields :
         fieldValue[f] # 0 =>
           \E k \in 1..Len(currentRecording) :
             /\ currentRecording[k].type = "type"
             /\ currentRecording[k].sel = f
             /\ currentRecording[k].value = fieldValue[f]


(***************************************************************************)
(* Properties of the extension's recording store (SpecStorage)             *)
(***************************************************************************)
\* C40: a recording in chrome.storage.local whose save has reported success
\* stays stored under its name, with its actions, until the write of a
\* delete or of another save of that name; the saves and deletes of other
\* names, each of which reads the whole store, suspends and writes the whole
\* store back, neither remove nor change it, however they interleave.
C40_SavedStaysRetrievable ==
  [][\A n \in DOMAIN storage :
       (/\ ~\E r \in recTask : r.op = "save" /\ r.name = n /\ r.pc = "set"
        /\ (n \notin DOMAIN storage' \/ storage'[n] # storage[n]))
         => \E r \in recTask :
              r.name = n /\ r.op \in {"save", "delete"} /\ r.pc = "get"
                /\ r \notin recTask']_vars

====
